---- MODULE Spec2Model ----
(***************************************************************************)
(* A model of fullerite's metric pipeline: the collector runner with its   *)
(* watchdog (collectors.go runCollector / reportCollector), the dispatcher *)
(* (collectors.go readFromCollector) and the Prometheus handler's snapshot *)
(* cache with its serializer (handler/prometheus.go addPrometheusMetric,   *)
(* writeTable, PrometheustableRead).                                       *)
(*                                                                         *)
(* Go strings are sequences of one-character strings, so that prefixing,   *)
(* sanitizing, escaping and regular-expression matching are computed as    *)
(* the code computes them.  Go maps are functions with a finite domain.    *)
(***************************************************************************)
EXTENDS Integers, Sequences, FiniteSets, TLC

\* ------------------------------------------------------------------------
\* Bounds of the model
\* ------------------------------------------------------------------------
\* records (markers and data) the environment hands to the snapshot cache in one run
MaxEmits == 5

\* collector intervals the clock runs for
MaxTime == 3
\* collection cycles a runner starts in one run
MaxCycles == 2
\* records a channel holds before a send blocks
ChanCap == 1
\* records the environment sends on a collector's channel in one run
MaxSent == 2
\* seconds the clock runs for beside a dispatcher on its own
MaxClock == 4
\* emitMetrics calls a textfile handler receives in one run
MaxFlushes == 2
\* records in one batch handed to emitMetrics
MaxBatch == 2
\* characters of a name handed to the sanitizer
MaxName == 3
MaxPods == 2

\* ------------------------------------------------------------------------
\* Strings
\* ------------------------------------------------------------------------
UpperSeq == <<"A", "B", "C", "D", "E", "F", "G", "H", "I", "J", "K", "L", "M", "N", "O", "P", "Q", "R", "S", "T", "U", "V", "W", "X", "Y", "Z">>
LowerSeq == <<"a", "b", "c", "d", "e", "f", "g", "h", "i", "j", "k", "l", "m", "n", "o", "p", "q", "r", "s", "t", "u", "v", "w", "x", "y", "z">>
DigitSeq == <<"0", "1", "2", "3", "4", "5", "6", "7", "8", "9">>

Range(f) == {f[i] : i \in DOMAIN f}
Upper == Range(UpperSeq)
Lower == Range(LowerSeq)
Digit == Range(DigitSeq)

\* Go map read m[k] with the zero value for an absent key, and map write
MapGet(m, k, zero) == IF k \in DOMAIN m THEN m[k] ELSE zero
MapPut(m, k, v) == [x \in (DOMAIN m) \cup {k} |-> IF x = k THEN v ELSE m[x]]
MapDel(m, k) == [x \in (DOMAIN m) \ {k} |-> m[x]]
EmptyMap == <<>>

\* every order in which a range loop may visit the keys of a Go map
Orders(S) == {o \in [1..Cardinality(S) -> S] : \A i, j \in 1..Cardinality(S) : o[i] = o[j] => i = j}

\* ------------------------------------------------------------------------
\* metric.Metric
\* ------------------------------------------------------------------------
Gauge == "gauge"
Counter == "counter"
CumulativeCounter == "cumcounter"

BeginName == <<"f", "u", "l", "l", "e", "r", "i", "t", "e", ".", "b", "e", "g", "i", "n", "_", "c", "o", "l", "l", "e", "c", "t", "i", "o", "n">>
EndName == <<"f", "u", "l", "l", "e", "r", "i", "t", "e", ".", "e", "n", "d", "_", "c", "o", "l", "l", "e", "c", "t", "i", "o", "n">>
SentinelName == <<"f", "u", "l", "l", "e", "r", "i", "t", "e", ".", "e", "m", "i", "t", "_", "n", "o", "w">>
OverrunName == <<"f", "u", "l", "l", "e", "r", "i", "t", "e", ".", "c", "o", "l", "l", "e", "c", "t", "i", "o", "n", "_", "t", "i", "m", "e", "_", "e", "x", "c", "e", "e", "d", "e", "d">>

K_collector == <<"c", "o", "l", "l", "e", "c", "t", "o", "r">>
K_canonical == <<"c", "o", "l", "l", "e", "c", "t", "o", "r", "C", "a", "n", "o", "n", "i", "c", "a", "l", "N", "a", "m", "e">>
K_interval == <<"i", "n", "t", "e", "r", "v", "a", "l">>

\* metric.New: type gauge, value 0, no dimension
New(name) == [Name |-> name, MetricType |-> Gauge, Value |-> 0, Dimensions |-> EmptyMap]
WithValue(name, value) == [New(name) EXCEPT !.Value = value]
AddDimension(m, k, v) == [m EXCEPT !.Dimensions = MapPut(m.Dimensions, k, v)]
RemoveDimension(m, k) == [m EXCEPT !.Dimensions = MapDel(m.Dimensions, k)]
HasDimension(m, k) == k \in DOMAIN m.Dimensions
\* GetDimensionValue: the empty string for an absent dimension
GetDimensionValue(m, k) == MapGet(m.Dimensions, k, <<>>)

Sentinel == WithValue(SentinelName, 0)
BeginCollection(collector) == AddDimension(WithValue(BeginName, 0), K_collector, collector)
EndCollection(collector) == AddDimension(WithValue(EndName, 0), K_collector, collector)
IsBeginCollection(m) == m.Name = BeginName
IsEndCollection(m) == m.Name = EndName
IsSentinel(m) == m.Name = SentinelName

\* ------------------------------------------------------------------------
\* Exposition serializer (handler/prometheus.go)
\* ------------------------------------------------------------------------
RECURSIVE ReplaceChars(_, _)
\* a strings.Replacer whose old strings are single characters; rep maps a
\* character to its replacement string
ReplaceChars(rep, s) ==
  IF s = <<>> THEN <<>>
  ELSE (IF Head(s) \in DOMAIN rep THEN rep[Head(s)] ELSE <<Head(s)>>) \o ReplaceChars(rep, Tail(s))

\* a replacer that turns a dot into a dash
nameEscaper_dotToDash(s) ==
  ReplaceChars(("$" :> <<>>) @@ ("." :> <<"-">>) @@ ("-" :> <<"_">>) @@ ("/" :> <<>>) @@ ("'" :> <<>>) @@ (" " :> <<"_">>), s)

nameEscaper(s) ==
  ReplaceChars(("$" :> <<>>) @@ ("." :> <<"_">>) @@ ("-" :> <<"_">>) @@ ("/" :> <<>>) @@ ("'" :> <<>>) @@ (" " :> <<"_">>), s)

labelEscaper(s) ==
  ReplaceChars(("\\" :> <<"\\", "\\">>) @@ ("\n" :> <<"\\", "n">>) @@ ("\"" :> <<"\\", "\"">>), s)

ToLower(c) == IF c \in Upper THEN LowerSeq[CHOOSE i \in DOMAIN UpperSeq : UpperSeq[i] = c] ELSE c

\* a byte that starts no UTF-8 encoding, and the rune utf8.DecodeRuneInString
\* gives for it
BadByte == "\\xff"
RuneError == "\\uFFFD"
DecodeRune(c) == IF c = BadByte THEN RuneError ELSE c

lowerFirst(s) == IF s = <<>> THEN <<>> ELSE <<ToLower(DecodeRune(Head(s)))>> \o Tail(s)

RECURSIVE dimensionsJoin(_, _, _)
dimensionsJoin(dims, order, seperator) ==
  IF order = <<>> THEN <<>>
  ELSE seperator \o Head(order) \o <<"=", "\"">> \o labelEscaper(dims[Head(order)]) \o <<"\"">>
       \o dimensionsJoin(dims, Tail(order), <<",">>)

\* dimensionsToString with the keys visited in the given order
dimensionsToString(dims, order) ==
  IF DOMAIN dims = {} THEN <<"{", "}">>
  ELSE dimensionsJoin(dims, order, <<"{">>) \o <<"}">>

getMetricKey(m, order) == lowerFirst(nameEscaper(m.Name)) \o dimensionsToString(m.Dimensions, order)

NameFirst == Upper \cup Lower \cup {"_", ":"}
NameRest == NameFirst \cup Digit
\* regexp.MustCompile("[a-zA-Z_:][a-zA-Z0-9_:]*").MatchString: the pattern is
\* not anchored, so it matches when some character can start a name
nameMatcher(s) == \E i \in DOMAIN s : s[i] \in NameFirst

\* one line of a body, "%s %f %d\n" of key, value and time
SampleLine(key, value, time) == [key |-> key, value |-> value, time |-> time]

RECURSIVE SerializeSet(_, _)
\* the values the local variable out of writeTable can end with: a range
\* over a Go map visits the dimensions of each record in any order
SerializeSet(metrics, time) ==
  IF metrics = <<>> THEN {<<>>}
  ELSE LET m == Head(metrics)
           heads == {IF nameMatcher(getMetricKey(m, o))
                       THEN <<SampleLine(getMetricKey(m, o), m.Value, time)>>
                       ELSE <<>> : o \in Orders(DOMAIN m.Dimensions)}
       IN {h \o t : h \in heads, t \in SerializeSet(Tail(metrics), time)}


\* ------------------------------------------------------------------------
\* State
\* ------------------------------------------------------------------------
VARIABLES
  now,                   \* the clock, in seconds
  metricCollectorTable,  \* working table: source -> list of metric.Metric
  metricOutputTypes,     \* type table: raw name -> TRUE for counter, FALSE for gauge
  metricOutputTable,     \* published table: source -> serialized body
  writers,               \* the writeTable goroutines started and not yet finished
  spawned,               \* number of writeTable goroutines started so far
  generation,            \* history: source -> records received since its last end marker
  closed,                \* history: source -> the generations closed so far, in order
  openGen,               \* history: source with a begin marker and no end marker since -> records received since that begin marker
  emits,                 \* history: number of records handed to the cache so far
  conf,                  \* the collector's configuration, fixed at start
  rpc,                   \* runCollector: where the runner stands
  cycle,                 \* runCollector: number of cycles started so far
  produced,              \* Collect(): records the running invocation has produced so far
  tickPending,           \* ticker.C holds a tick
  timers,                \* cycle -> its countdownTimer and callback
  pushers,               \* goroutines started by Collect() that still have a record to push
  cchan,                 \* collector.Channel(), oldest record first
  received,              \* history: what the consumer of the channel received, in order
  cclosed,               \* collector.Channel() is closed
  dpc,                   \* readFromCollector: where the dispatcher stands
  dm,                    \* readFromCollector: m, the record in hand
  dc,                    \* readFromCollector: c, the key of the record in hand
  di,                    \* readFromCollector: i, the next handler of the fan-out loop
  statq,                 \* emitCollectorStats: the pairs still to send
  emissionCounter,       \* readFromCollector: key -> records counted
  lastEmission,          \* readFromCollector: time of the last stats emission
  statChan,              \* collectorStatChans[0], oldest pair first
  statClosed,            \* collectorStatChans[0] is closed
  hchan,                 \* handler -> key -> its CollectorEnd channel
  cur,                   \* history: the record consumed last and what became of it
  total,                 \* history: key -> records consumed that no blacklist entry has a match in
  statSent,              \* history: the pairs sent on the stats channel, in order
  emissionEnd,           \* history: the time the last stats emission finished, 0 before the first
  tpc,                   \* NodeExporterTextfile: where the handler stands
  fh,                    \* NodeExporterTextfile.fh: "nil" or "open"
  tbatch,                \* emitMetrics: metrics, the batch in hand
  tidx,                  \* emitMetrics: the next record of the batch to write
  fbuf,                  \* the lines held by the bufio.Writer
  file,                  \* the lines of the output file
  flushes,               \* emitMetrics calls so far
  sinput,                \* a name handed to the sanitizer
  sname,                 \* the name after the applications so far
  sfirst,                \* history: the name after the first application
  sapplied,              \* applications of the sanitizer so far
  parser,                \* the PodInfoParser
  pods,                  \* SelectPodsFrom: pods, the list handed in
  selectors,             \* SelectPodsFrom: selectors, the selectors handed in
  ret,                   \* SelectPodsFrom: the list returned
  ppc,                   \* SelectPodsFrom: not called, called, or returned
  metricCollectorTableMutex,  \* who holds the lock of the working table
  metricOutputTableMutex,     \* who holds the lock of the published table
  apc,                   \* addPrometheusMetric: where the handler's call stands
  am,                    \* addPrometheusMetric: m, the record in hand
  readpc,                \* PrometheustableRead: where the reader stands
  collectors,            \* readFromCollectors: the channel of each collector
  readers,               \* readFromCollectors: the readFromCollector goroutine of each collector
  collectorStatChan,     \* readFromCollectors: the one stats channel handed to all of them
  panicked               \* the runtime panic that ended the process, if any

cacheVars == <<metricCollectorTable, metricOutputTypes, metricOutputTable, writers, spawned>>
historyVars == <<generation, closed, openGen, emits>>
runnerVars == <<rpc, cycle, produced, tickPending, timers, pushers>>
dispatchVars == <<dpc, dm, dc, di, statq, emissionCounter, lastEmission, statChan, statClosed, cur, total, statSent, emissionEnd>>
textVars == <<tpc, fh, tbatch, tidx, fbuf, file, flushes>>
\* the state of the components that stand beside the pipeline
sanitizeVars == <<sinput, sname, sfirst, sapplied>>
podVars == <<parser, pods, selectors, ret, ppc>>
lockVars == <<metricCollectorTableMutex, metricOutputTableMutex, apc, am, readpc>>
sharedVars == <<collectors, readers, collectorStatChan, panicked>>
sideVars == <<textVars, sanitizeVars, podVars, lockVars, sharedVars>>
vars == <<now, cacheVars, historyVars, conf, runnerVars, cchan, received, cclosed, dispatchVars, hchan, sideVars>>
\* what the steps of the cache, of the runner and of the dispatcher leave alone
outsideCache == <<now, conf, runnerVars, cchan, received, cclosed, dispatchVars, hchan, sideVars>>
outsideRunner == <<cacheVars, historyVars, cclosed, dispatchVars, hchan, sideVars>>
outsideDispatch == <<now, conf, runnerVars, received, cclosed, cacheVars, historyVars, sideVars>>
pipelineVars == <<now, cacheVars, historyVars, conf, runnerVars, cchan, received, cclosed, dispatchVars, hchan>>
outsideText == <<pipelineVars, sanitizeVars, podVars, lockVars, sharedVars>>

\* the collectors handed to readFromCollectors
NumCollectors == 2
N_hello == <<"h", "e", "l", "l", "o">>
N_a_b == <<"a", ".", "b">>
S_Test == <<"T", "e", "s", "t">>
S_Foobar == <<"F", "o", "o", "b", "a", "r">>

\* ------------------------------------------------------------------------
\* Snapshot cache (handler/prometheus.go)
\* ------------------------------------------------------------------------
InitCache ==
  /\ metricCollectorTable = EmptyMap
  /\ metricOutputTypes = EmptyMap
  /\ metricOutputTable = EmptyMap
  /\ writers = {}
  /\ spawned = 0
  /\ generation = EmptyMap
  /\ openGen = EmptyMap
  /\ closed = EmptyMap
  /\ emits = 0

\* go writeTable(name, metrics): a goroutine that has not run yet
StartWriter(name, metrics) ==
  /\ spawned' = spawned + 1
  /\ writers' = writers \cup {[id |-> spawned + 1, name |-> name, metrics |-> metrics, pc |-> "start", out |-> <<>>]}

\* addPrometheusMetric with the working list left in place at an end marker
addPrometheusMetric_keepsList(m) ==
  LET collectorName == GetDimensionValue(m, K_collector) IN
  IF IsBeginCollection(m) THEN
    /\ metricCollectorTable' =
         IF collectorName \in DOMAIN metricCollectorTable THEN metricCollectorTable
         ELSE MapPut(metricCollectorTable, collectorName, <<>>)
    /\ UNCHANGED <<metricOutputTypes, writers, spawned>>
  ELSE IF IsEndCollection(m) THEN
    /\ metricCollectorTable' = MapPut(metricCollectorTable, collectorName, MapGet(metricCollectorTable, collectorName, <<>>))
    /\ StartWriter(collectorName, MapGet(metricCollectorTable, collectorName, <<>>))
    /\ UNCHANGED metricOutputTypes
  ELSE
    /\ metricCollectorTable' =
         MapPut(metricCollectorTable, collectorName, Append(MapGet(metricCollectorTable, collectorName, <<>>), m))
    /\ metricOutputTypes' = MapPut(metricOutputTypes, m.Name, m.MetricType # Gauge)
    /\ UNCHANGED <<writers, spawned>>

\* addPrometheusMetric that puts a data record in front of the working list
addPrometheusMetric_prepends(m) ==
  LET collectorName == GetDimensionValue(m, K_collector) IN
  IF IsBeginCollection(m) THEN
    /\ metricCollectorTable' =
         IF collectorName \in DOMAIN metricCollectorTable THEN metricCollectorTable
         ELSE MapPut(metricCollectorTable, collectorName, <<>>)
    /\ UNCHANGED <<metricOutputTypes, writers, spawned>>
  ELSE IF IsEndCollection(m) THEN
    /\ metricCollectorTable' = MapPut(metricCollectorTable, collectorName, <<>>)
    /\ StartWriter(collectorName, MapGet(metricCollectorTable, collectorName, <<>>))
    /\ UNCHANGED metricOutputTypes
  ELSE
    /\ metricCollectorTable' =
         MapPut(metricCollectorTable, collectorName, <<m>> \o MapGet(metricCollectorTable, collectorName, <<>>))
    /\ metricOutputTypes' = MapPut(metricOutputTypes, m.Name, m.MetricType # Gauge)
    /\ UNCHANGED <<writers, spawned>>

\* addPrometheusMetric: the section under metricCollectorTableMutex
addPrometheusMetric(m) ==
  LET collectorName == GetDimensionValue(m, K_collector) IN
  IF IsBeginCollection(m) THEN
    /\ metricCollectorTable' =
         IF collectorName \in DOMAIN metricCollectorTable THEN metricCollectorTable
         ELSE MapPut(metricCollectorTable, collectorName, <<>>)
    /\ UNCHANGED <<metricOutputTypes, writers, spawned>>
  ELSE IF IsEndCollection(m) THEN
    /\ metricCollectorTable' = MapPut(metricCollectorTable, collectorName, <<>>)
    /\ StartWriter(collectorName, MapGet(metricCollectorTable, collectorName, <<>>))
    /\ UNCHANGED metricOutputTypes
  ELSE
    /\ metricCollectorTable' =
         MapPut(metricCollectorTable, collectorName, Append(MapGet(metricCollectorTable, collectorName, <<>>), m))
    /\ metricOutputTypes' = MapPut(metricOutputTypes, m.Name, m.MetricType # Gauge)
    /\ UNCHANGED <<writers, spawned>>

\* the history of what the cache was given, kept beside the code's tables
Record(m) ==
  LET s == GetDimensionValue(m, K_collector) IN
  /\ emits' = emits + 1
  /\ IF IsBeginCollection(m) THEN UNCHANGED <<generation, closed>>
     ELSE IF IsEndCollection(m) THEN
       /\ closed' = MapPut(closed, s, Append(MapGet(closed, s, <<>>), MapGet(generation, s, <<>>)))
       /\ generation' = MapPut(generation, s, <<>>)
     ELSE
       /\ generation' = MapPut(generation, s, Append(MapGet(generation, s, <<>>), m))
       /\ UNCHANGED closed
  /\ openGen' =
       IF IsBeginCollection(m) THEN (IF s \in DOMAIN openGen THEN openGen ELSE MapPut(openGen, s, <<>>))
       ELSE IF IsEndCollection(m) THEN MapDel(openGen, s)
       ELSE IF s \in DOMAIN openGen THEN MapPut(openGen, s, Append(openGen[s], m))
       ELSE openGen

\* writeTable up to the lock: the time is read and the list is serialized
writeTableSerialize(w) ==
  /\ w.pc = "start"
  /\ \E out \in SerializeSet(w.metrics, now) :
       writers' = (writers \ {w}) \cup {[w EXCEPT !.pc = "publish", !.out = out]}
  /\ UNCHANGED <<metricCollectorTable, metricOutputTypes, metricOutputTable, spawned>>

\* writeTable that skips an empty payload, as the older handler's emitMetrics does
writeTablePublish_skipsEmpty(w) ==
  /\ w.pc = "publish"
  /\ metricOutputTable' = IF w.out = <<>> THEN metricOutputTable ELSE MapPut(metricOutputTable, w.name, w.out)
  /\ writers' = writers \ {w}
  /\ UNCHANGED <<metricCollectorTable, metricOutputTypes, spawned>>

\* writeTable, the section under metricOutputTableMutex
writeTablePublish(w) ==
  /\ w.pc = "publish"
  /\ metricOutputTable' = MapPut(metricOutputTable, w.name, w.out)
  /\ writers' = writers \ {w}
  /\ UNCHANGED <<metricCollectorTable, metricOutputTypes, spawned>>

TypeLine(k, t) == [name |-> lowerFirst(nameEscaper(k)), type |-> IF t THEN "counter" ELSE "gauge"]

\* the payloads PrometheustableRead can build from the current tables: the
\* TYPE lines of the raw names that match, then every chunk, each range in
\* any order
PrometheustableRead ==
  LET typed == {k \in DOMAIN metricOutputTypes : nameMatcher(k)} IN
  {[types |-> [i \in 1..Cardinality(typed) |-> TypeLine(ko[i], metricOutputTypes[ko[i]])],
    chunks |-> [i \in 1..Cardinality(DOMAIN metricOutputTable) |-> [name |-> so[i], out |-> metricOutputTable[so[i]]]]] : ko \in Orders(typed), so \in Orders(DOMAIN metricOutputTable)}

\* ------------------------------------------------------------------------
\* Collector runner and watchdog (collectors.go)
\* ------------------------------------------------------------------------
RECURSIVE Itoa(_)
\* fmt.Sprintf("%d", n) for n >= 0
Itoa(n) == IF n < 10 THEN <<DigitSeq[n + 1]>> ELSE Itoa(n \div 10) \o <<DigitSeq[(n % 10) + 1]>>

staggerValue == 1
collectionDeadline == conf.Interval + staggerValue

S_px == <<"p", "x", ".">>
S_Diamond == <<"D", "i", "a", "m", "o", "n", "d">>
\* a collector as configured: its Name(), CanonicalName(), Interval(),
\* Prefix(), Blacklist(), CollectorType(), and whether its Collect() pushes
\* its records itself or leaves that to goroutines it starts, and how many
\* records one invocation produces at most; and len(collectorStatChans) of
\* its dispatcher
DefaultConf ==
  [Name |-> S_Test, CanonicalName |-> S_Test, Interval |-> 1, Prefix |-> <<>>, Blacklist |-> <<>>,
   CollectorType |-> "poller", async |-> FALSE, readings |-> 1, statChans |-> 1,
   kubeCore |-> FALSE]

NoTimer == [state |-> "none", armedAt |-> 0, deadline |-> 0]

InitRunner ==
  /\ rpc = "idle"
  /\ cycle = 0
  /\ produced = 0
  /\ tickPending = FALSE
  /\ timers = [c \in 1..MaxCycles |-> NoTimer]
  /\ pushers = {}
  /\ cchan = <<>>
  /\ received = <<>>

\* the process runs until something exits it; goroutines, timers and the
\* readers of channels run only while it does
running == rpc # "exited"

\* a send on collector.Channel(): it blocks while the channel is full
canSend == Len(cchan) < ChanCap
send(m) == cchan' = Append(cchan, m)

\* the record a Collect() invocation of the given cycle produces: its value
\* tells the invocation
Reading(c) == WithValue(N_hello, c)

\* a runner that serves a tick wherever it stands, as one goroutine per tick would
RunnerBegin_onEveryTick ==
  /\ running /\ tickPending /\ cycle < MaxCycles
  /\ canSend
  /\ send(BeginCollection(conf.Name))
  /\ tickPending' = FALSE
  /\ cycle' = cycle + 1
  /\ produced' = 0
  /\ timers' = IF conf.CollectorType = "listener" THEN timers
               ELSE [timers EXCEPT ![cycle + 1] = [state |-> "armed", armedAt |-> now, deadline |-> now + collectionDeadline]]
  /\ rpc' = "collect"
  /\ UNCHANGED <<now, conf, pushers, received, outsideRunner>>

\* case <-collect, the begin marker, and for a poller time.AfterFunc
RunnerBegin ==
  /\ rpc = "idle" /\ tickPending /\ cycle < MaxCycles
  /\ canSend
  /\ send(BeginCollection(conf.Name))
  /\ tickPending' = FALSE
  /\ cycle' = cycle + 1
  /\ produced' = 0
  /\ timers' = IF conf.CollectorType = "listener" THEN timers
               ELSE [timers EXCEPT ![cycle + 1] = [state |-> "armed", armedAt |-> now, deadline |-> now + collectionDeadline]]
  /\ rpc' = "collect"
  /\ UNCHANGED <<now, conf, pushers, received, outsideRunner>>

\* Collect() pushes a record itself
CollectPush ==
  /\ rpc = "collect" /\ ~conf.async /\ produced < conf.readings
  /\ canSend
  /\ send(Reading(cycle))
  /\ produced' = produced + 1
  /\ UNCHANGED <<now, conf, rpc, cycle, tickPending, timers, pushers, received, outsideRunner>>

\* Collect() starts a goroutine that will push a record (go k.collectForPod,
\* go d.CollectMetricsForPod)
CollectSpawn ==
  /\ rpc = "collect" /\ conf.async /\ produced < conf.readings
  /\ pushers' = pushers \cup {[cycle |-> cycle, n |-> produced + 1]}
  /\ produced' = produced + 1
  /\ UNCHANGED <<now, conf, rpc, cycle, tickPending, timers, cchan, received, outsideRunner>>

\* KubeCoreComponentMetrics.Collect() asks for the pods of its next metric
\* and the lookup fails: log.Fatalf logs and exits the process
CollectFatal ==
  /\ rpc = "collect" /\ conf.kubeCore /\ produced < conf.readings
  /\ rpc' = "exited"
  /\ UNCHANGED <<now, conf, cycle, produced, tickPending, timers, pushers, cchan, received, outsideRunner>>

\* a goroutine started by Collect() pushes its record
PusherPush ==
  \E g \in pushers :
    /\ running
    /\ canSend
    /\ send(Reading(g.cycle))
    /\ pushers' = pushers \ {g}
    /\ UNCHANGED <<now, conf, rpc, cycle, produced, tickPending, timers, received, outsideRunner>>

\* a Stop() that leaves the timer armed
stopTimer_leavesArmed(c) == timers' = timers

\* countdownTimer.Stop(): a timer that has not fired never will
stopTimer(c) ==
  timers' = IF timers[c].state = "armed" THEN [timers EXCEPT ![c].state = "stopped"] ELSE timers

\* a Collect() that an overrun report has cut short never returns to the runner
CollectReturn_unlessReported ==
  /\ rpc = "collect"
  /\ conf.CollectorType = "listener" \/ timers[cycle].state \notin {"fired", "pushed"}
  /\ IF conf.CollectorType = "listener" THEN UNCHANGED timers ELSE stopTimer(cycle)
  /\ rpc' = "end"
  /\ UNCHANGED <<now, conf, cycle, produced, tickPending, pushers, cchan, received, outsideRunner>>

\* Collect() returns; a poller stops its timer
CollectReturn ==
  /\ rpc = "collect"
  /\ IF conf.CollectorType = "listener" THEN UNCHANGED timers ELSE stopTimer(cycle)
  /\ rpc' = "end"
  /\ UNCHANGED <<now, conf, cycle, produced, tickPending, pushers, cchan, received, outsideRunner>>

\* the end marker
RunnerEnd ==
  /\ rpc = "end"
  /\ canSend
  /\ send(EndCollection(conf.Name))
  /\ rpc' = "idle"
  /\ UNCHANGED <<now, conf, cycle, produced, tickPending, timers, pushers, received, outsideRunner>>

\* the timer of a cycle fires: its callback starts
fireTimer(c) ==
  /\ timers[c].state = "armed" /\ now >= timers[c].deadline
  /\ timers' = [timers EXCEPT ![c].state = "fired"]

TimerFire ==
  \E c \in 1..MaxCycles :
    /\ running
    /\ fireTimer(c)
    /\ UNCHANGED <<now, conf, rpc, cycle, produced, tickPending, pushers, cchan, received, outsideRunner>>

overrunMetric ==
  AddDimension([New(OverrunName) EXCEPT !.MetricType = Counter, !.Value = 1], K_interval, Itoa(conf.Interval))

\* reportCollector on a timer that is armed again once it has reported
reportCollector_rearms(c) ==
  /\ timers[c].state = "fired"
  /\ canSend
  /\ send(overrunMetric)
  /\ timers' = [timers EXCEPT ![c].state = "armed", ![c].deadline = now + collectionDeadline]

\* reportCollector: the callback pushes the overrun metric and ends
reportCollector(c) ==
  /\ timers[c].state = "fired"
  /\ canSend
  /\ send(overrunMetric)
  /\ timers' = [timers EXCEPT ![c].state = "pushed"]

ReportCollector ==
  \E c \in 1..MaxCycles :
    /\ running
    /\ reportCollector(c)
    /\ UNCHANGED <<now, conf, rpc, cycle, produced, tickPending, pushers, received, outsideRunner>>

\* a second passes; the ticker ticks every Interval seconds and ticker.C
\* keeps one tick; a timer that is due fires before the clock moves on
due == \E c \in 1..MaxCycles : timers[c].state = "armed" /\ now >= timers[c].deadline
Tick ==
  /\ now < MaxTime * conf.Interval /\ ~due
  /\ now' = now + 1
  /\ tickPending' = (tickPending \/ (now + 1) % conf.Interval = 0)
  /\ UNCHANGED <<conf, rpc, cycle, produced, timers, pushers, cchan, received, outsideRunner>>

\* the single consumer of the collector's channel
Consume ==
  /\ running
  /\ cchan # <<>>
  /\ received' = Append(received, Head(cchan))
  /\ cchan' = Tail(cchan)
  /\ UNCHANGED <<now, conf, runnerVars, outsideRunner>>

\* ------------------------------------------------------------------------
\* Dispatcher (collectors.go readFromCollector)
\* ------------------------------------------------------------------------
N_m1 == <<"m", "1">>
N_metric3 == <<"m", "e", "t", "r", "i", "c", "3">>
N_am1 == <<"a", "m", "1">>

\* a blacklist entry as regexp compiles it: ^ or not, a sequence of items (a
\* set of characters, once or with +), $ or not; an entry that does not
\* compile
P_mdigits ==
  [invalid |-> FALSE, start |-> FALSE,
   items |-> <<[chars |-> {"m"}, plus |-> FALSE], [chars |-> Digit, plus |-> TRUE]>>, end |-> TRUE]
P_invalid == [invalid |-> TRUE, start |-> FALSE, items |-> <<>>, end |-> FALSE]

RECURSIVE MatchEnds(_, _, _)
\* the positions at which a match of the items that starts at position i can end
MatchEnds(items, s, i) ==
  IF items = <<>> THEN {i}
  ELSE LET it == Head(items)
           last == IF it.plus THEN Len(s) ELSE i
           ends == {j \in (i + 1)..(last + 1) : j - 1 <= Len(s) /\ \A k \in i..(j - 1) : s[k] \in it.chars}
       IN UNION {MatchEnds(Tail(items), s, j) : j \in ends}

\* matched, _ = regexp.MatchString(v, metricName): a match anywhere in the
\* name; an entry that does not compile matches nothing
MatchString(v, metricName) ==
  /\ ~v.invalid
  /\ \E i \in (IF v.start THEN {1} ELSE 1..(Len(metricName) + 1)) :
       \E j \in MatchEnds(v.items, metricName, i) : v.end => j = Len(metricName) + 1

\* stringInSlice with entries that have to match the whole name
stringInSlice_wholeName(metricName, list) ==
  \E n \in DOMAIN list :
    /\ ~list[n].invalid
    /\ Len(metricName) + 1 \in MatchEnds(list[n].items, metricName, 1)

stringInSlice(metricName, list) == \E n \in DOMAIN list : MatchString(list[n], metricName)

\* handlers[i].CollectorEndpoints(): the keys each handler has a channel for
CollectorEndpoints == <<{S_Test, S_Foobar}, {S_Test}>>
NumHandlers == Len(CollectorEndpoints)

\* the names m[0-9]+$ has a match in: an m, then digits up to the end
EndsWithMDigits(name) ==
  \E i \in 1..(Len(name) - 1) : name[i] = "m" /\ \A j \in (i + 1)..Len(name) : name[j] \in Digit
Blacklisted(name) == (\E n \in DOMAIN conf.Blacklist : conf.Blacklist[n] = P_mdigits) /\ EndsWithMDigits(name)
\* the source a record as received resolves to
KeyOf(m) ==
  IF K_canonical \in DOMAIN m.Dimensions THEN m.Dimensions[K_canonical] ELSE conf.CanonicalName

NoMetric == [Name |-> <<>>, MetricType |-> Gauge, Value |-> 0, Dimensions |-> EmptyMap]
NoCur ==
  [in |-> NoMetric, key |-> <<>>, counted |-> {}, stats |-> FALSE, delivered |-> {}, sent |-> <<>>, seen |-> FALSE,
   first |-> 0]

InitDispatch ==
  /\ cclosed = FALSE
  /\ dpc = "recv"
  /\ dm = NoMetric
  /\ dc = <<>>
  /\ di = 1
  /\ statq = <<>>
  /\ emissionCounter = EmptyMap
  /\ lastEmission = 0
  /\ statChan = <<>>
  /\ statClosed = FALSE
  /\ hchan = [h \in 1..NumHandlers |-> [k \in CollectorEndpoints[h] |-> <<>>]]
  /\ cur = NoCur
  /\ total = EmptyMap
  /\ statSent = <<>>
  /\ emissionEnd = 0

\* a record without collector dimension gets the collector's Name()
stampCollector(m) ==
  IF ~HasDimension(m, K_collector) THEN AddDimension(m, K_collector, conf.Name) ELSE m

\* the key c, always the collector's CanonicalName()
routingKey_canonicalOnly(m) == conf.CanonicalName

\* the key c: the collector's CanonicalName() or the record's collectorCanonicalName
routingKey(m) ==
  IF HasDimension(m, K_canonical) THEN GetDimensionValue(m, K_canonical) ELSE conf.CanonicalName

stripCanonical(m) ==
  IF HasDimension(m, K_canonical) THEN RemoveDimension(m, K_canonical) ELSE m

\* the prefix put behind the name
withPrefix_appends(m) ==
  IF Len(conf.Prefix) > 0 THEN [m EXCEPT !.Name = m.Name \o conf.Prefix] ELSE m

withPrefix(m) ==
  IF Len(conf.Prefix) > 0 THEN [m EXCEPT !.Name = conf.Prefix \o m.Name] ELSE m

CollectorEmission(name, count) == [Name |-> name, EmissionCount |-> count]

\* the fan-out loop left after its first delivery
Subscribers_firstOnly(i, c) == {h \in i..NumHandlers : i = 1 /\ c \in CollectorEndpoints[h]}

\* the handlers from i on that have an endpoint for the key
Subscribers(i, c) == {h \in i..NumHandlers : c \in CollectorEndpoints[h]}

\* stats are due as soon as a whole interval has passed
statsDue_atInterval == conf.statChans > 0 /\ now >= lastEmission + conf.Interval

\* len(collectorStatChans) > 0 and currentTime.After(lastEmission.Add(statDuration))
statsDue == conf.statChans > 0 /\ now > lastEmission + conf.Interval

\* one turn of the loop up to its first send: the record is taken from the
\* channel, stamped, keyed, checked against the blacklist and counted, and
\* the dispatcher decides whether stats are due
DispatchRecv ==
  /\ dpc = "recv" /\ cchan # <<>>
  /\ LET m0 == Head(cchan)
         m == stripCanonical(stampCollector(m0))
         c == routingKey(stampCollector(m0))
         counter == MapPut(emissionCounter, c, MapGet(emissionCounter, c, 0) + 1)
     IN /\ cchan' = Tail(cchan)
        /\ IF stringInSlice(m.Name, conf.Blacklist)
             THEN /\ UNCHANGED <<dpc, dm, dc, di, statq, emissionCounter>>
             ELSE /\ emissionCounter' = counter
                  /\ dm' = m /\ dc' = c /\ di' = 1
                  /\ IF statsDue
                       THEN /\ dpc' = "emit"
                            /\ \E o \in Orders(DOMAIN counter) :
                                 statq' = [n \in DOMAIN o |-> CollectorEmission(o[n], counter[o[n]])]
                       ELSE dpc' = "send" /\ statq' = <<>>
        /\ cur' = [in |-> m0, key |-> c,
                   counted |-> {k \in DOMAIN emissionCounter' : MapGet(emissionCounter, k, 0) # emissionCounter'[k]},
                   stats |-> (dpc' = "emit"), delivered |-> {}, sent |-> <<>>, seen |-> TRUE,
                   first |-> IF dpc' = "emit" THEN Len(statSent) + 1 ELSE 0]
        /\ total' = IF Blacklisted(m0.Name) THEN total
                    ELSE MapPut(total, KeyOf(m0), MapGet(total, KeyOf(m0), 0) + 1)
  /\ UNCHANGED <<lastEmission, statChan, statClosed, statSent, emissionEnd, hchan, outsideDispatch>>

\* emitCollectorStats followed by a reset of the counters
DispatchEmit_resets ==
  /\ dpc = "emit" /\ statq # <<>>
  /\ Len(statChan) < ChanCap
  /\ statChan' = Append(statChan, Head(statq))
  /\ statSent' = Append(statSent, statChan'[Len(statChan')])
  /\ statq' = Tail(statq)
  /\ IF Tail(statq) = <<>> THEN lastEmission' = now /\ dpc' = "send" /\ emissionCounter' = EmptyMap
     ELSE UNCHANGED <<lastEmission, dpc, emissionCounter>>
  /\ emissionEnd' = IF Tail(statq) = <<>> THEN now ELSE emissionEnd
  /\ UNCHANGED <<cchan, dm, dc, di, statClosed, hchan, cur, total, outsideDispatch>>

\* emitCollectorStats: the next pair is sent; after the last one
\* lastEmission is set
DispatchEmit ==
  /\ dpc = "emit" /\ statq # <<>>
  /\ Len(statChan) < ChanCap
  /\ statChan' = Append(statChan, Head(statq))
  /\ statSent' = Append(statSent, statChan'[Len(statChan')])
  /\ statq' = Tail(statq)
  /\ IF Tail(statq) = <<>> THEN lastEmission' = now /\ dpc' = "send"
     ELSE UNCHANGED <<lastEmission, dpc>>
  /\ emissionEnd' = IF Tail(statq) = <<>> THEN now ELSE emissionEnd
  /\ UNCHANGED <<cchan, dm, dc, di, emissionCounter, statClosed, hchan, cur, total, outsideDispatch>>

\* the fan-out loop: the record, with the prefix, is sent to the next
\* handler that has an endpoint for the key
DispatchSend ==
  /\ dpc = "send"
  /\ IF Subscribers(di, dc) = {}
       THEN /\ dpc' = "recv"
            /\ UNCHANGED <<di, hchan, cur>>
       ELSE LET h == CHOOSE x \in Subscribers(di, dc) : \A y \in Subscribers(di, dc) : x <= y IN
            /\ Len(hchan[h][dc]) < ChanCap
            /\ hchan' = [hchan EXCEPT ![h][dc] = Append(@, withPrefix(dm))]
            /\ cur' = [cur EXCEPT !.delivered = @ \cup {[h |-> h, k |-> dc, m |-> hchan'[h][dc][Len(hchan'[h][dc])]]},
                                  !.sent = Append(@, h)]
            /\ di' = h + 1
            /\ UNCHANGED dpc
  /\ UNCHANGED <<cchan, dm, dc, statq, emissionCounter, lastEmission, statChan, statClosed, total, statSent, emissionEnd, outsideDispatch>>

\* a loop that ends as soon as it finds the channel empty
DispatchClose_onEmpty ==
  /\ dpc = "recv" /\ cchan = <<>>
  /\ dpc' = "done"
  /\ statClosed' = (conf.statChans > 0)
  /\ UNCHANGED <<cchan, dm, dc, di, statq, emissionCounter, lastEmission, statChan, hchan, cur, total, statSent, emissionEnd, outsideDispatch>>

\* the channel is closed and drained: the loop ends and the stats channel is closed
DispatchClose ==
  /\ dpc = "recv" /\ cchan = <<>> /\ cclosed
  /\ dpc' = "done"
  /\ statClosed' = (conf.statChans > 0)
  /\ UNCHANGED <<cchan, dm, dc, di, statq, emissionCounter, lastEmission, statChan, hchan, cur, total, statSent, emissionEnd, outsideDispatch>>

\* a handler takes a record from one of its endpoints
HandlerTake(h) ==
  \E k \in CollectorEndpoints[h] :
    /\ hchan[h][k] # <<>>
    /\ hchan' = [hchan EXCEPT ![h][k] = Tail(@)]

\* the reader of the stats channel takes a pair
StatsTake ==
  /\ statChan # <<>>
  /\ statChan' = Tail(statChan)
  /\ UNCHANGED <<cchan, dpc, dm, dc, di, statq, emissionCounter, lastEmission, statClosed, hchan, cur, total, statSent, emissionEnd, outsideDispatch>>

\* ------------------------------------------------------------------------
\* Textfile handler (handler/node_exporter_textfile.go)
\* ------------------------------------------------------------------------
\* one line of the file: the name, the label pairs in the order the range
\* over the dimensions visits them, the value
TextLine(m, order) ==
  [name |-> m.Name,
   labels |-> [i \in DOMAIN order |-> <<order[i], labelEscaper(m.Dimensions[order[i]])>>],
   value |-> m.Value]

\* the handler as newNodeExporterTextfile returns it; no file yet
InitText ==
  /\ tpc = "new"
  /\ fh = "nil"
  /\ tbatch = <<>>
  /\ tidx = 1
  /\ fbuf = <<>>
  /\ file = <<>>
  /\ flushes = 0

\* no name has been handed to the sanitizer
SanitizeIdle == sinput = <<>> /\ sname = <<>> /\ sfirst = <<>> /\ sapplied = 0

\* NewPodInfoParser(5): a parser without selectors, and no call of SelectPodsFrom
PodsIdle ==
  /\ parser = [kubeletTimeout |-> 5, selectors |-> <<>>]
  /\ pods = <<>> /\ selectors = <<>> /\ ret = <<>> /\ ppc = "idle"

\* both locks free, no call of addPrometheusMetric under way, no reader
LocksIdle ==
  /\ metricCollectorTableMutex = "free" /\ metricOutputTableMutex = "free"
  /\ apc = "idle" /\ am = NoMetric /\ readpc = "idle"

\* the goroutines started by readFromCollectors: every collector's channel
\* open and empty, every dispatcher before its first receive with
\* lastEmission := time.Now(), the stats channel open and empty
InitShared ==
  /\ collectors = [i \in 1..NumCollectors |-> [Channel |-> <<>>, closed |-> FALSE, pushed |-> 0]]
  /\ readers = [i \in 1..NumCollectors |-> [pc |-> "recv", emissionCounter |-> EmptyMap, lastEmission |-> 0, statq |-> <<>>]]
  /\ collectorStatChan = [buf |-> <<>>, closed |-> FALSE]
  /\ panicked = ""

InitSide == InitText /\ SanitizeIdle /\ PodsIdle /\ LocksIdle /\ InitShared

\* Configure: os.Create truncates or creates the file; when it fails fh stays unset
TextConfigure ==
  /\ tpc = "new"
  /\ \E ok \in BOOLEAN :
       IF ok THEN fh' = "open" /\ file' = <<>>
       ELSE UNCHANGED <<fh, file>>
  /\ tpc' = "idle"
  /\ UNCHANGED <<tbatch, tidx, fbuf, flushes, outsideText>>

\* the records handed to the textfile handler
TextData ==
  { WithValue(N_hello, 1), AddDimension(WithValue(N_a_b, 2), K_collector, S_Test) }
TextBatches == UNION {[1..n -> TextData] : n \in 0..MaxBatch}

\* emitMetrics up to its loop: an empty batch is skipped, an unset writer is
\* warned about
TextEmit ==
  \E metrics \in TextBatches :
    /\ tpc = "idle" /\ flushes < MaxFlushes
    /\ flushes' = flushes + 1
    /\ tbatch' = metrics
    /\ tidx' = 1
    /\ tpc' = IF Len(metrics) = 0 THEN "idle" ELSE "write"
    /\ UNCHANGED <<fh, fbuf, file, outsideText>>

\* writeMetric(h.fh, m): a method call on the unset writer panics
TextWrite ==
  /\ tpc = "write" /\ tidx <= Len(tbatch)
  /\ IF fh = "nil"
       THEN tpc' = "crashed" /\ UNCHANGED <<tidx, fbuf>>
       ELSE /\ \E order \in Orders(DOMAIN tbatch[tidx].Dimensions) :
                 fbuf' = Append(fbuf, TextLine(tbatch[tidx], order))
            /\ tidx' = tidx + 1
            /\ UNCHANGED tpc
  /\ UNCHANGED <<fh, tbatch, file, flushes, outsideText>>

\* h.fh.Flush(): the buffer goes to the file, behind what the file holds
TextFlush ==
  /\ tpc = "write" /\ tidx > Len(tbatch)
  /\ file' = file \o fbuf
  /\ fbuf' = <<>>
  /\ tpc' = "idle"
  /\ UNCHANGED <<fh, tbatch, tidx, flushes, outsideText>>

\* ------------------------------------------------------------------------
\* The runner with a consumer of its channel (SpecRunner)
\* ------------------------------------------------------------------------
\* pollers whose Collect() pushes its records itself (the Test collector), a
\* poller and a listener whose Collect() leaves the pushing to goroutines
RunnerConfs ==
  {[DefaultConf EXCEPT !.Interval = i] : i \in {1, 2}}
  \cup {[DefaultConf EXCEPT !.CollectorType = t, !.async = TRUE] : t \in {"poller", "listener"}}

InitSpecRunner == now = 0 /\ InitCache /\ InitRunner /\ InitDispatch /\ InitSide /\ conf \in RunnerConfs

NextRunner ==
  \/ RunnerBegin \/ CollectPush \/ CollectSpawn \/ PusherPush \/ CollectReturn \/ RunnerEnd
  \/ TimerFire \/ ReportCollector \/ Tick \/ Consume

SpecRunner == InitSpecRunner /\ [][NextRunner]_vars

\* ------------------------------------------------------------------------
\* The runner of a KubeCoreComponentMetrics collector (SpecKube)
\* ------------------------------------------------------------------------
\* a poller whose Collect() looks the pods of each of its metrics up and
\* leaves the scraping and the pushing to one goroutine per pod; a lookup
\* may fail
KubeConfs ==
  {[DefaultConf EXCEPT !.kubeCore = TRUE, !.async = TRUE, !.Interval = i, !.readings = r] :
     i \in {1, 2}, r \in {1, 2}}

InitSpecKube == now = 0 /\ InitCache /\ InitRunner /\ InitDispatch /\ InitSide /\ conf \in KubeConfs

NextKube ==
  \/ RunnerBegin \/ CollectSpawn \/ CollectFatal \/ PusherPush \/ CollectReturn \/ RunnerEnd
  \/ TimerFire \/ ReportCollector \/ Tick \/ Consume

SpecKube == InitSpecKube /\ [][NextKube]_vars

\* ------------------------------------------------------------------------
\* The cache driven by any sequence of records (SpecCache)
\* ------------------------------------------------------------------------
CacheSources == {S_Test, S_Foobar}
\* the data records the environment hands to the cache, already stamped with
\* their source as the dispatcher stamps them
CacheData ==
  { [Name |-> N_hello, MetricType |-> Gauge, Value |-> 1, Dimensions |-> (K_collector :> S_Test)],
    [Name |-> N_a_b, MetricType |-> CumulativeCounter, Value |-> 2, Dimensions |-> (K_collector :> S_Test)],
    [Name |-> N_hello, MetricType |-> Counter, Value |-> 3, Dimensions |-> (K_collector :> S_Foobar)] }

EmitBegin ==
  \E s \in CacheSources :
    /\ emits < MaxEmits
    /\ addPrometheusMetric(BeginCollection(s))
    /\ Record(BeginCollection(s))
    /\ UNCHANGED <<outsideCache, metricOutputTable>>

EmitData ==
  \E m \in CacheData :
    /\ emits < MaxEmits
    /\ addPrometheusMetric(m)
    /\ Record(m)
    /\ UNCHANGED <<outsideCache, metricOutputTable>>

EmitEnd ==
  \E s \in CacheSources :
    /\ emits < MaxEmits
    /\ addPrometheusMetric(EndCollection(s))
    /\ Record(EndCollection(s))
    /\ UNCHANGED <<outsideCache, metricOutputTable>>

WriteTableSerialize == \E w \in writers : writeTableSerialize(w) /\ UNCHANGED <<outsideCache, historyVars>>

WriteTablePublish == \E w \in writers : writeTablePublish(w) /\ UNCHANGED <<outsideCache, historyVars>>

NextCache == EmitBegin \/ EmitData \/ EmitEnd \/ WriteTableSerialize \/ WriteTablePublish

InitSpecCache == now = 0 /\ InitCache /\ InitRunner /\ InitDispatch /\ InitSide /\ conf = DefaultConf

SpecCache == InitSpecCache /\ [][NextCache]_vars

\* ------------------------------------------------------------------------
\* The cache fed with raw names that sanitize alike (SpecTypes)
\* ------------------------------------------------------------------------
N_a_u_b == <<"a", "_", "b">>
\* records of one source: a.b and a_b both sanitize to a_b
TypeData ==
  { [Name |-> N_a_b, MetricType |-> CumulativeCounter, Value |-> 1, Dimensions |-> (K_collector :> S_Test)],
    [Name |-> N_a_u_b, MetricType |-> Gauge, Value |-> 2, Dimensions |-> (K_collector :> S_Test)],
    [Name |-> N_hello, MetricType |-> Gauge, Value |-> 3, Dimensions |-> (K_collector :> S_Test)] }

EmitTyped ==
  \E m \in TypeData :
    /\ emits < MaxEmits
    /\ addPrometheusMetric(m)
    /\ Record(m)
    /\ UNCHANGED <<outsideCache, metricOutputTable>>

NextTypes == EmitBegin \/ EmitTyped \/ EmitEnd \/ WriteTableSerialize \/ WriteTablePublish

InitSpecTypes == now = 0 /\ InitCache /\ InitRunner /\ InitDispatch /\ InitSide /\ conf = DefaultConf

SpecTypes == InitSpecTypes /\ [][NextTypes]_vars

\* ------------------------------------------------------------------------
\* The dispatcher driven by any sequence of records (SpecDispatch)
\* ------------------------------------------------------------------------
\* the records the environment sends on the collector's channel
DispatchData ==
  { New(N_m1), New(N_metric3), New(N_am1),
    AddDimension(WithValue(N_hello, 1), K_collector, S_Foobar),
    AddDimension([New(N_hello) EXCEPT !.MetricType = Counter], K_canonical, S_Foobar) }

\* collector.Channel() <- m
Produce ==
  \E m \in DispatchData :
    /\ ~cclosed /\ produced < MaxSent
    /\ canSend
    /\ send(m)
    /\ produced' = produced + 1
    /\ UNCHANGED <<now, conf, rpc, cycle, tickPending, timers, pushers, received, outsideRunner>>

\* close(collector.Channel())
CloseChannel ==
  /\ ~cclosed
  /\ cclosed' = TRUE
  /\ UNCHANGED <<now, conf, runnerVars, cchan, received, cacheVars, historyVars, dispatchVars, hchan, sideVars>>

\* a second passes
Clock ==
  /\ now < MaxClock
  /\ now' = now + 1
  /\ UNCHANGED <<conf, runnerVars, cchan, received, cacheVars, historyVars, cclosed, dispatchVars, hchan, sideVars>>

AnyHandlerTake ==
  \E h \in 1..NumHandlers :
    /\ HandlerTake(h)
    /\ UNCHANGED <<cchan, dispatchVars, outsideDispatch>>

\* the Test collector; one with a prefix and the blacklist of the tests,
\* preceded by an entry that does not compile; an ad-hoc one without stats
\* channel; one whose canonical name is not its name and has no endpoint at
\* any handler
DispatchConfs ==
  { DefaultConf,
    [DefaultConf EXCEPT !.Prefix = S_px, !.Blacklist = <<P_invalid, P_mdigits>>],
    [DefaultConf EXCEPT !.statChans = 0],
    [DefaultConf EXCEPT !.CanonicalName = S_Diamond, !.Blacklist = <<P_mdigits>>] }

InitSpecDispatch == now = 0 /\ InitCache /\ InitRunner /\ InitDispatch /\ InitSide /\ conf \in DispatchConfs

NextDispatch ==
  \/ Produce \/ CloseChannel \/ Clock
  \/ DispatchRecv \/ DispatchEmit \/ DispatchSend \/ DispatchClose
  \/ AnyHandlerTake \/ StatsTake

SpecDispatch == InitSpecDispatch /\ [][NextDispatch]_vars

\* ------------------------------------------------------------------------
\* The pipeline: runner, dispatcher, Prometheus handler and cache (Spec)
\* ------------------------------------------------------------------------
\* the first handler is the Prometheus handler
PrometheusHandler == 1

\* the Prometheus handler takes a record from one of its endpoints and
\* emitMetrics hands it to addPrometheusMetric
PrometheusEmit ==
  \E k \in CollectorEndpoints[PrometheusHandler] :
    /\ hchan[PrometheusHandler][k] # <<>>
    /\ hchan' = [hchan EXCEPT ![PrometheusHandler][k] = Tail(@)]
    /\ addPrometheusMetric(Head(hchan[PrometheusHandler][k]))
    /\ Record(Head(hchan[PrometheusHandler][k]))
    /\ UNCHANGED <<now, conf, runnerVars, cchan, received, cclosed, dispatchVars, metricOutputTable, sideVars>>

\* the other handlers take their records
OtherHandlerTake ==
  \E h \in (1..NumHandlers) \ {PrometheusHandler} :
    /\ HandlerTake(h)
    /\ UNCHANGED <<cchan, dispatchVars, outsideDispatch>>

\* the Test collector without and with a prefix, and a poller whose
\* Collect() leaves the pushing to goroutines
PipelineConfs ==
  { DefaultConf, [DefaultConf EXCEPT !.Prefix = S_px], [DefaultConf EXCEPT !.async = TRUE] }

Init == now = 0 /\ InitCache /\ InitRunner /\ InitDispatch /\ InitSide /\ conf \in PipelineConfs

Next ==
  \/ RunnerBegin \/ CollectPush \/ CollectSpawn \/ PusherPush \/ CollectReturn \/ RunnerEnd
  \/ TimerFire \/ ReportCollector \/ Tick
  \/ DispatchRecv \/ DispatchEmit \/ DispatchSend \/ StatsTake
  \/ PrometheusEmit \/ OtherHandlerTake
  \/ WriteTableSerialize \/ WriteTablePublish

Spec == Init /\ [][Next]_vars

\* ------------------------------------------------------------------------
\* One dispatcher feeding the Prometheus handler, records numbered (SpecOrder)
\* ------------------------------------------------------------------------
\* the collector pushes a marker or a data record; the value of what it
\* pushes is the number of the push
OrderData(n) ==
  {[m EXCEPT !.Value = n] : m \in {BeginCollection(conf.Name), EndCollection(conf.Name), New(N_hello), New(N_a_b)}}

ProduceNumbered ==
  \E m \in OrderData(produced + 1) :
    /\ produced < MaxEmits
    /\ canSend
    /\ send(m)
    /\ produced' = produced + 1
    /\ UNCHANGED <<now, conf, rpc, cycle, tickPending, timers, pushers, received, outsideRunner>>

\* an ad-hoc collector, without stats channel, whose canonical name only the
\* Prometheus handler has an endpoint for
OrderConfs == {[DefaultConf EXCEPT !.statChans = 0, !.CanonicalName = S_Foobar]}

InitSpecOrder == now = 0 /\ InitCache /\ InitRunner /\ InitDispatch /\ InitSide /\ conf \in OrderConfs

NextOrder ==
  \/ ProduceNumbered
  \/ DispatchRecv \/ DispatchSend
  \/ PrometheusEmit
  \/ WriteTableSerialize \/ WriteTablePublish

SpecOrder == InitSpecOrder /\ [][NextOrder]_vars

\* ------------------------------------------------------------------------
\* One dispatcher feeding the cache with records that name their source (SpecKeys)
\* ------------------------------------------------------------------------
\* what the collector pushes: its markers, a plain record, a record that
\* carries a collector dimension of its own, and a record that carries a
\* collectorCanonicalName
KeyData ==
  { BeginCollection(conf.Name), EndCollection(conf.Name), New(N_hello),
    AddDimension(WithValue(N_hello, 1), K_collector, S_Diamond),
    AddDimension(WithValue(N_a_b, 2), K_canonical, S_Test) }

ProduceKeyed ==
  \E m \in KeyData :
    /\ produced < MaxEmits
    /\ canSend
    /\ send(m)
    /\ produced' = produced + 1
    /\ UNCHANGED <<now, conf, rpc, cycle, tickPending, timers, pushers, received, outsideRunner>>

KeyConfs == {[DefaultConf EXCEPT !.statChans = 0, !.CanonicalName = S_Foobar]}

InitSpecKeys == now = 0 /\ InitCache /\ InitRunner /\ InitDispatch /\ InitSide /\ conf \in KeyConfs

NextKeys ==
  \/ ProduceKeyed \/ DispatchRecv \/ DispatchSend \/ PrometheusEmit \/ OtherHandlerTake
  \/ WriteTableSerialize \/ WriteTablePublish

SpecKeys == InitSpecKeys /\ [][NextKeys]_vars

\* ------------------------------------------------------------------------
\* The dispatcher beside a handler that never drains its endpoints (SpecStall)
\* ------------------------------------------------------------------------
\* the first handler takes nothing; the dispatcher, the other handlers and
\* the reader of the stats channel take every step they can
InitSpecStall == now = 0 /\ InitCache /\ InitRunner /\ InitDispatch /\ InitSide /\ conf \in DispatchConfs

NextStall ==
  \/ Produce \/ CloseChannel \/ Clock
  \/ DispatchRecv \/ DispatchEmit \/ DispatchSend \/ DispatchClose
  \/ OtherHandlerTake \/ StatsTake

FairStall ==
  /\ WF_vars(DispatchRecv) /\ WF_vars(DispatchEmit) /\ WF_vars(DispatchSend) /\ WF_vars(DispatchClose)
  /\ WF_vars(OtherHandlerTake) /\ WF_vars(StatsTake)

SpecStall == InitSpecStall /\ [][NextStall]_vars /\ FairStall

\* ------------------------------------------------------------------------
\* The textfile handler driven by any batches (SpecTextfile)
\* ------------------------------------------------------------------------
InitSpecTextfile == now = 0 /\ InitCache /\ InitRunner /\ InitDispatch /\ InitSide /\ conf = DefaultConf

NextTextfile == TextConfigure \/ TextEmit \/ TextWrite \/ TextFlush

SpecTextfile == InitSpecTextfile /\ [][NextTextfile]_vars

\* ------------------------------------------------------------------------
\* The cache given records of any name (SpecFilter)
\* ------------------------------------------------------------------------
N_1a == <<"1", "a">>
N_9 == <<"9">>
N_a_plus == <<"a", "+">>
\* records of the Test collector, stamped as the dispatcher stamps them: a
\* name that starts with a digit, one of digits only, one with a character no
\* name may hold, and one that is a name
FilterData ==
  { [Name |-> N_1a, MetricType |-> Gauge, Value |-> 1, Dimensions |-> (K_collector :> S_Test)],
    [Name |-> N_9, MetricType |-> Gauge, Value |-> 2, Dimensions |-> (K_collector :> S_Test)],
    [Name |-> N_a_plus, MetricType |-> Gauge, Value |-> 3, Dimensions |-> (K_collector :> S_Test)],
    [Name |-> N_a_b, MetricType |-> Gauge, Value |-> 4, Dimensions |-> (K_collector :> S_Test)] }

EmitName ==
  \E m \in FilterData :
    /\ emits < MaxEmits
    /\ addPrometheusMetric(m)
    /\ Record(m)
    /\ UNCHANGED <<outsideCache, metricOutputTable>>

EmitTestEnd ==
  /\ emits < MaxEmits
  /\ addPrometheusMetric(EndCollection(S_Test))
  /\ Record(EndCollection(S_Test))
  /\ UNCHANGED <<outsideCache, metricOutputTable>>

InitSpecFilter == now = 0 /\ InitCache /\ InitRunner /\ InitDispatch /\ InitSide /\ conf = DefaultConf

NextFilter == EmitName \/ EmitTestEnd \/ WriteTableSerialize \/ WriteTablePublish

SpecFilter == InitSpecFilter /\ [][NextFilter]_vars

\* ------------------------------------------------------------------------
\* The name sanitizer applied to any name (SpecSanitize)
\* ------------------------------------------------------------------------
\* letters of both cases, a digit, characters the replacer drops and
\* replaces, one it leaves alone, and a byte that is no UTF-8
SanitizeChars == {"A", "a", "1", ".", "$", "-", "_", BadByte}
SanitizeNames == UNION {[1..n -> SanitizeChars] : n \in 0..MaxName}

InitSanitize == sinput \in SanitizeNames /\ sname = sinput /\ sfirst = <<>> /\ sapplied = 0

\* output = lowerFirst(nameEscaper.Replace(metric.Name)), on the name, and on
\* its own result
Sanitize ==
  /\ sapplied < 2
  /\ sname' = lowerFirst(nameEscaper(sname))
  /\ sfirst' = IF sapplied = 0 THEN sname' ELSE sfirst
  /\ sapplied' = sapplied + 1
  /\ UNCHANGED <<sinput, pipelineVars, textVars, podVars, lockVars, sharedVars>>

InitSpecSanitize ==
  now = 0 /\ InitCache /\ InitRunner /\ InitDispatch /\ InitText /\ InitSanitize /\ PodsIdle /\ LocksIdle /\ InitShared
  /\ conf = DefaultConf

NextSanitize == Sanitize

SpecSanitize == InitSpecSanitize /\ [][NextSanitize]_vars

\* ------------------------------------------------------------------------
\* Pod selection (pod_info: selectors, PodInfoParser.SelectPodsFrom)
\* ------------------------------------------------------------------------
\* a pod is its labels and the ready flags of its container statuses
NoLabels == [k \in {} |-> ""]
Pod(labels, ready) == [labels |-> labels, ready |-> ready]

NewLabelSelector(l) == [kind |-> "label", Labels |-> l]
NewAllContainersReadySelector == [kind |-> "ready"]

\* LabelSelector.Filter: false at the first listed label that the pod lacks
\* or carries with another value
LabelSelectorFilter(l, pod) ==
  ~ \E k \in DOMAIN l.Labels :
      LET exists == k \in DOMAIN pod.labels
      IN ~exists \/ pod.labels[k] # l.Labels[k]

\* AllContainersReadySelector.Filter: false at the first status that is not ready
AllContainersReadySelectorFilter(pod) ==
  ~ \E i \in DOMAIN pod.ready : ~pod.ready[i]

Filter(s, pod) ==
  IF s.kind = "label" THEN LabelSelectorFilter(s, pod) ELSE AllContainersReadySelectorFilter(pod)

\* one of the two selector loops of SelectPodsFrom: it stops once the pod is
\* not legit and clears the flag at the first selector that answers false
RECURSIVE filterLoop(_, _, _)
filterLoop(ss, pod, isPodLegit) ==
  IF ss = <<>> \/ ~isPodLegit THEN isPodLegit
  ELSE filterLoop(Tail(ss), pod, IF ~Filter(Head(ss), pod) THEN FALSE ELSE isPodLegit)

\* the loop over the pods: the parser's selectors, then the argument's, then
\* the append
RECURSIVE selectLoop(_, _, _, _)
selectLoop(p, ps, ss, r) ==
  IF ps = <<>> THEN r
  ELSE LET pod == Head(ps)
           isPodLegit == filterLoop(ss, pod, filterLoop(p.selectors, pod, TRUE))
       IN selectLoop(p, Tail(ps), ss, IF isPodLegit THEN Append(r, pod) ELSE r)

\* SelectPodsFrom that leaves the parser's own selectors out
SelectPodsFrom_argumentOnly(p, ps, ss) == selectLoop([p EXCEPT !.selectors = <<>>], ps, ss, <<>>)

SelectPodsFrom(p, ps, ss) == selectLoop(p, ps, ss, <<>>)

\* the call SelectPodsFrom(pods, selectors...) on the parser
SelectPods ==
  /\ ppc = "called"
  /\ ret' = SelectPodsFrom(parser, pods, selectors)
  /\ ppc' = "returned"
  /\ UNCHANGED <<parser, pods, selectors, pipelineVars, textVars, sanitizeVars, lockVars, sharedVars>>

\* ------------------------------------------------------------------------
\* SelectPodsFrom on any list of pods (SpecPods)
\* ------------------------------------------------------------------------
\* the two pods of mockPods, and pods without labels or statuses, with a
\* container that is not ready, with another value of the label, with two labels
PodData ==
  { Pod("component" :> "kube-scheduler", <<TRUE, TRUE>>),
    Pod("noop" :> "noop", <<TRUE, TRUE>>),
    Pod(NoLabels, <<>>),
    Pod("component" :> "kube-scheduler", <<TRUE, FALSE>>),
    Pod("component" :> "noop", <<TRUE>>),
    Pod(("component" :> "kube-scheduler") @@ ("noop" :> "noop"), <<TRUE>>) }

SelectorData ==
  { NewAllContainersReadySelector,
    NewLabelSelector("component" :> "kube-scheduler"),
    NewLabelSelector("noop" :> "noop"),
    NewLabelSelector(("component" :> "kube-scheduler") @@ ("noop" :> "noop")),
    NewLabelSelector(NoLabels) }

PodLists == UNION {[1..n -> PodData] : n \in 0..MaxPods}
\* the parser holds no selector or one, a call passes up to two
ParserSelectors == {<<>>} \cup {<<s>> : s \in SelectorData}
ArgumentSelectors == ParserSelectors \cup {<<s, t>> : s, t \in SelectorData}

InitPods ==
  /\ parser \in {[kubeletTimeout |-> 5, selectors |-> ss] : ss \in ParserSelectors}
  /\ pods \in PodLists
  /\ selectors \in ArgumentSelectors
  /\ ret = <<>>
  /\ ppc = "called"

InitSpecPods ==
  now = 0 /\ InitCache /\ InitRunner /\ InitDispatch /\ InitText /\ SanitizeIdle /\ InitPods /\ LocksIdle /\ InitShared
  /\ conf = DefaultConf

NextPods == SelectPods

SpecPods == InitSpecPods /\ [][NextPods]_vars

\* ------------------------------------------------------------------------
\* The cache with its two locks and a reader (SpecLocks)
\* ------------------------------------------------------------------------
\* what the steps of the handler's call, of the reader and of writeTable
\* leave alone beside the cache
outsideLocks ==
  <<now, conf, runnerVars, cchan, received, cclosed, dispatchVars, hchan, textVars, sanitizeVars, podVars, sharedVars>>

LockData ==
  { BeginCollection(S_Test), EndCollection(S_Test),
    [Name |-> N_hello, MetricType |-> Gauge, Value |-> 1, Dimensions |-> (K_collector :> S_Test)],
    [Name |-> N_a_b, MetricType |-> CumulativeCounter, Value |-> 2, Dimensions |-> (K_collector :> S_Test)] }

\* addPrometheusMetric(m): metricCollectorTableMutex.Lock()
AddLock ==
  /\ apc = "idle" /\ emits < MaxEmits
  /\ metricCollectorTableMutex = "free"
  /\ metricCollectorTableMutex' = "handler"
  /\ \E m \in LockData : am' = m
  /\ apc' = "locked"
  /\ UNCHANGED <<cacheVars, historyVars, metricOutputTableMutex, readpc, outsideLocks>>

\* an addPrometheusMetric whose begin-marker branch returns without Unlock()
AddApply_beginKeepsLock ==
  /\ apc = "locked"
  /\ addPrometheusMetric(am)
  /\ Record(am)
  /\ metricCollectorTableMutex' = IF IsBeginCollection(am) THEN metricCollectorTableMutex ELSE "free"
  /\ apc' = "idle"
  /\ UNCHANGED <<metricOutputTable, metricOutputTableMutex, am, readpc, outsideLocks>>

\* addPrometheusMetric(m): the work under the lock (for a data record the
\* append and the write of metricOutputTypes), then Unlock()
AddApply ==
  /\ apc = "locked"
  /\ addPrometheusMetric(am)
  /\ Record(am)
  /\ metricCollectorTableMutex' = "free"
  /\ apc' = "idle"
  /\ UNCHANGED <<metricOutputTable, metricOutputTableMutex, am, readpc, outsideLocks>>

\* PrometheustableRead: metricOutputTableMutex.Lock(); the range over
\* metricOutputTypes starts
ReadLock ==
  /\ readpc = "idle"
  /\ metricOutputTableMutex = "free"
  /\ metricOutputTableMutex' = "reader"
  /\ readpc' = "types"
  /\ UNCHANGED <<cacheVars, historyVars, metricCollectorTableMutex, apc, am, outsideLocks>>

\* the range over metricOutputTypes ends, the range over metricOutputTable starts
ReadTypes ==
  /\ readpc = "types"
  /\ readpc' = "chunks"
  /\ UNCHANGED <<cacheVars, historyVars, metricCollectorTableMutex, metricOutputTableMutex, apc, am, outsideLocks>>

\* a reader that keeps the lock while it writes to the client
ReadUnlock_keepsLock ==
  /\ readpc = "chunks"
  /\ readpc' = "write"
  /\ UNCHANGED <<cacheVars, historyVars, metricCollectorTableMutex, metricOutputTableMutex, apc, am, outsideLocks>>

\* the range over metricOutputTable ends; metricOutputTableMutex.Unlock()
ReadUnlock ==
  /\ readpc = "chunks"
  /\ metricOutputTableMutex' = "free"
  /\ readpc' = "write"
  /\ UNCHANGED <<cacheVars, historyVars, metricCollectorTableMutex, apc, am, outsideLocks>>

\* w.Write returns: the client has taken the payload; a slow client never does
ReadWrite ==
  /\ readpc = "write"
  /\ readpc' = "idle"
  /\ UNCHANGED <<cacheVars, historyVars, metricCollectorTableMutex, metricOutputTableMutex, apc, am, outsideLocks>>

\* the write of metricOutputTypes meets the range over it: the runtime may
\* notice it (fatal error: concurrent map iteration and map write), which
\* ends the process
RaceFatal ==
  /\ apc = "locked" /\ ~IsSentinel(am) /\ readpc = "types"
  /\ apc' = "crashed" /\ readpc' = "crashed"
  /\ UNCHANGED <<cacheVars, historyVars, metricCollectorTableMutex, metricOutputTableMutex, am, outsideLocks>>

\* writeTable up to its lock
LockedSerialize ==
  /\ readpc # "crashed"
  /\ \E w \in writers : writeTableSerialize(w)
  /\ UNCHANGED <<historyVars, lockVars, outsideLocks>>

\* writeTable: metricOutputTableMutex.Lock(), the assignment, Unlock()
LockedPublish ==
  /\ readpc # "crashed"
  /\ metricOutputTableMutex = "free"
  /\ \E w \in writers : writeTablePublish(w)
  /\ UNCHANGED <<historyVars, lockVars, outsideLocks>>

InitSpecLocks == now = 0 /\ InitCache /\ InitRunner /\ InitDispatch /\ InitSide /\ conf = DefaultConf

NextLocks ==
  \/ AddLock \/ AddApply \/ ReadLock \/ ReadTypes \/ ReadUnlock \/ ReadWrite \/ RaceFatal
  \/ LockedSerialize \/ LockedPublish

SpecLocks == InitSpecLocks /\ [][NextLocks]_vars

\* ------------------------------------------------------------------------
\* One dispatcher per collector, all with the same stats channel (SpecShared)
\* ------------------------------------------------------------------------
\* what the dispatchers started by readFromCollectors leave alone
outsideShared ==
  <<cacheVars, historyVars, conf, runnerVars, cchan, received, cclosed, dispatchVars, hchan,
    textVars, sanitizeVars, podVars, lockVars>>

\* collector.CanonicalName() of the i-th collector
SharedNames == <<S_Test, S_Foobar, N_hello>>

\* the process runs: no goroutine has panicked
alive == panicked = ""

\* a collector sends a record on its channel
SharedPush(i) ==
  /\ alive
  /\ ~collectors[i].closed /\ collectors[i].pushed < MaxSent
  /\ Len(collectors[i].Channel) < ChanCap
  /\ collectors' = [collectors EXCEPT ![i].Channel = Append(@, New(N_hello)), ![i].pushed = @ + 1]
  /\ UNCHANGED <<now, readers, collectorStatChan, panicked, outsideShared>>

\* close(collector.Channel())
SharedCloseCollector(i) ==
  /\ alive
  /\ ~collectors[i].closed
  /\ collectors' = [collectors EXCEPT ![i].closed = TRUE]
  /\ UNCHANGED <<now, readers, collectorStatChan, panicked, outsideShared>>

\* readFromCollector of the i-th collector, one turn of the loop up to its
\* first send: the record is received and counted under the collector's
\* canonical name, and stats are due or not; there are no handlers to fan
\* out to
SharedRecv(i) ==
  /\ alive
  /\ readers[i].pc = "recv" /\ collectors[i].Channel # <<>>
  /\ LET c == SharedNames[i]
         counter == MapPut(readers[i].emissionCounter, c, MapGet(readers[i].emissionCounter, c, 0) + 1)
     IN /\ collectors' = [collectors EXCEPT ![i].Channel = Tail(@)]
        /\ IF now > readers[i].lastEmission + conf.Interval
             THEN \E o \in Orders(DOMAIN counter) :
                    readers' = [readers EXCEPT ![i].emissionCounter = counter, ![i].pc = "emit",
                                  ![i].statq = [n \in DOMAIN o |-> CollectorEmission(o[n], counter[o[n]])]]
             ELSE readers' = [readers EXCEPT ![i].emissionCounter = counter]
  /\ UNCHANGED <<now, collectorStatChan, panicked, outsideShared>>

\* emitCollectorStats of the i-th dispatcher: the next pair is sent on the
\* stats channel, and the send panics when the channel is closed; after the
\* last pair lastEmission is set
SharedEmit(i) ==
  /\ alive
  /\ readers[i].pc = "emit"
  /\ IF collectorStatChan.closed
       THEN /\ panicked' = "send on closed channel"
            /\ UNCHANGED <<readers, collectorStatChan>>
       ELSE /\ Len(collectorStatChan.buf) < ChanCap
            /\ collectorStatChan' = [collectorStatChan EXCEPT !.buf = Append(@, Head(readers[i].statq))]
            /\ readers' = [readers EXCEPT ![i].statq = Tail(@),
                             ![i].pc = IF Tail(readers[i].statq) = <<>> THEN "recv" ELSE "emit",
                             ![i].lastEmission = IF Tail(readers[i].statq) = <<>> THEN now ELSE @]
            /\ UNCHANGED panicked
  /\ UNCHANGED <<now, collectors, outsideShared>>

\* the i-th dispatcher finds its collector's channel closed and drained: the
\* loop ends and close(statChannel) runs, which panics on a closed channel
SharedClose(i) ==
  /\ alive
  /\ readers[i].pc = "recv" /\ collectors[i].Channel = <<>> /\ collectors[i].closed
  /\ IF collectorStatChan.closed
       THEN /\ panicked' = "close of closed channel"
            /\ UNCHANGED <<readers, collectorStatChan>>
       ELSE /\ collectorStatChan' = [collectorStatChan EXCEPT !.closed = TRUE]
            /\ readers' = [readers EXCEPT ![i].pc = "done"]
            /\ UNCHANGED panicked
  /\ UNCHANGED <<now, collectors, outsideShared>>

\* the reader of the stats channel takes a pair
SharedStatsTake ==
  /\ alive
  /\ collectorStatChan.buf # <<>>
  /\ collectorStatChan' = [collectorStatChan EXCEPT !.buf = Tail(@)]
  /\ UNCHANGED <<now, collectors, readers, panicked, outsideShared>>

\* time passes
SharedTick ==
  /\ alive
  /\ now < MaxTime
  /\ now' = now + 1
  /\ UNCHANGED <<sharedVars, outsideShared>>

Push == \E i \in 1..NumCollectors : SharedPush(i)
CloseCollector == \E i \in 1..NumCollectors : SharedCloseCollector(i)
ReaderRecv == \E i \in 1..NumCollectors : SharedRecv(i)
ReaderEmit == \E i \in 1..NumCollectors : SharedEmit(i)
ReaderClose == \E i \in 1..NumCollectors : SharedClose(i)

InitSpecShared == now = 0 /\ InitCache /\ InitRunner /\ InitDispatch /\ InitSide /\ conf = DefaultConf

NextShared ==
  Push \/ CloseCollector \/ ReaderRecv \/ ReaderEmit \/ ReaderClose \/ SharedStatsTake \/ SharedTick

SpecShared == InitSpecShared /\ [][NextShared]_vars

\* ------------------------------------------------------------------------
\* Properties of the runner and its watchdog
\* ------------------------------------------------------------------------
\* everything sent on the collector's channel so far, in order
sent == received \o cchan
IsReading(m) == m.Name = N_hello
BeginsUpTo(i) == Cardinality({j \in 1..i : IsBeginCollection(received[j])})
EndsUpTo(i) == Cardinality({j \in 1..i : IsEndCollection(received[j])})

\* C3 (the claim as stated): the consumer of a collector's channel receives
\* every record of the k-th Collect() invocation after the k-th begin marker
\* and before the k-th end marker.
C3_RecordsInsideTheirCycle ==
  \A i \in DOMAIN received :
    IsReading(received[i]) =>
      /\ BeginsUpTo(i) = received[i].Value
      /\ EndsUpTo(i) = received[i].Value - 1

RECURSIVE Atoi(_)
\* the number a decimal text denotes
Atoi(s) ==
  IF s = <<>> THEN 0
  ELSE 10 * Atoi(SubSeq(s, 1, Len(s) - 1)) + ((CHOOSE d \in DOMAIN DigitSeq : DigitSeq[d] = s[Len(s)]) - 1)
IsDecimal(s) == s # <<>> /\ (\A i \in DOMAIN s : s[i] \in Digit) /\ (Len(s) > 1 => s[1] # "0")
Overruns == {i \in DOMAIN sent : sent[i].Name = OverrunName}
Late(c) == now > timers[c].armedAt + conf.Interval + 1

\* C7: every overrun metric on the channel is a counter of value 1 whose only
\* dimension, interval, is the decimal text of the collector's interval; there
\* is one overrun metric per invocation whose callback has reported, and never
\* more; the callback of an invocation has started once the invocation runs
\* later than interval+1 seconds after its start, and not before that time.
C7_OneOverrunPerLateInvocation ==
  /\ \A i \in Overruns :
       /\ sent[i].MetricType = Counter /\ sent[i].Value = 1
       /\ DOMAIN sent[i].Dimensions = {K_interval}
       /\ IsDecimal(sent[i].Dimensions[K_interval])
       /\ Atoi(sent[i].Dimensions[K_interval]) = conf.Interval
  /\ Cardinality(Overruns) = Cardinality({c \in 1..MaxCycles : timers[c].state = "pushed"})
  /\ \A c \in 1..MaxCycles :
       /\ (conf.CollectorType # "listener" /\ rpc = "collect" /\ cycle = c /\ Late(c))
            => timers[c].state \in {"fired", "pushed"}
       /\ timers[c].state \in {"fired", "pushed"} => now >= timers[c].armedAt + conf.Interval + 1

\* C7 witness: an invocation of a poller with interval 2 is still running
\* later than 3 seconds after its start and its one overrun metric was pushed.
C7_Witness ==
  /\ conf.Interval = 2
  /\ rpc = "collect" /\ Late(cycle)
  /\ timers[cycle].state = "pushed"
  /\ Cardinality(Overruns) = 1

\* C19: no failure inside a Collect() invocation ends the process: whatever
\* the pod lookup of a KubeCoreComponentMetrics collector answers, the runner
\* is waiting for a tick, inside Collect(), or about to push the end marker
\* of the cycle, and so goes on to the next cycle.
C19_FailedLookupIsNotFatal == rpc \in {"idle", "collect", "end"}

\* the markers sent on the collector's channel so far, in order
Markers == SelectSeq(sent, LAMBDA m : IsBeginCollection(m) \/ IsEndCollection(m))
EndsSent == Cardinality({i \in DOMAIN Markers : IsEndCollection(Markers[i])})

\* C22: on a collector's channel the markers of its runner alternate, begin
\* marker first: no second begin marker before the end marker of the cycle
\* before, and no Collect() invocation started while an earlier one has not
\* returned (the invocations started are at most one more than the end
\* markers pushed, and inside Collect() the last marker is a begin marker),
\* however many ticks an invocation outlasts.
C22_MarkersAlternate ==
  /\ \A i \in DOMAIN Markers :
       IF i % 2 = 1 THEN IsBeginCollection(Markers[i]) ELSE IsEndCollection(Markers[i])
  /\ cycle - EndsSent \in {0, 1}
  /\ rpc = "collect" => (Len(Markers) % 2 = 1 /\ cycle = EndsSent + 1)
  /\ rpc = "idle" => (Len(Markers) % 2 = 0 /\ cycle = EndsSent)

\* C22 witness: the first invocation of a poller lasted two tick intervals or
\* more, its end marker was pushed and the second cycle has begun.
C22_Witness ==
  /\ conf.CollectorType = "poller" /\ cycle = 2 /\ rpc = "collect"
  /\ timers[2].armedAt >= timers[1].armedAt + 2 * conf.Interval
  /\ Len(Markers) = 3

\* the watchdog of the cycle has fired: its callback runs or has reported
Fired(c) == timers[c].state \in {"fired", "pushed"}
EndsReceivedOrQueued == Cardinality({i \in DOMAIN sent : IsEndCollection(sent[i])})

\* C25: the watchdog is advisory: the step on which it fires and the step on
\* which its callback reports leave the runner and the invocation where they
\* are; an invocation whose watchdog has fired can return; after it has, the
\* runner pushes the end marker of the cycle as soon as the channel takes it
\* and then serves the next tick.
C25_WatchdogIsAdvisory ==
  /\ [][(\E c \in 1..MaxCycles : Fired(c)' /\ timers'[c] # timers[c])
          => UNCHANGED <<rpc, cycle, produced, tickPending, pushers>>]_vars
  /\ [](\A c \in 1..MaxCycles :
          (Fired(c) /\ cycle = c) =>
            /\ rpc = "collect" => ENABLED CollectReturn
            /\ (rpc = "end" /\ canSend) => ENABLED RunnerEnd
            /\ (rpc = "idle" /\ canSend /\ tickPending /\ cycle < MaxCycles) => ENABLED RunnerBegin
            /\ rpc = "idle" => EndsReceivedOrQueued = c)

\* C25 witness: the watchdog of the first cycle has reported, the invocation
\* has returned after that, the end marker of the cycle was pushed and the
\* second cycle has begun.
C25_Witness ==
  /\ cycle = 2 /\ rpc = "collect"
  /\ timers[1].state = "pushed"
  /\ EndsReceivedOrQueued = 1
  /\ \E i, j \in DOMAIN sent : i < j /\ sent[i].Name = OverrunName /\ IsEndCollection(sent[j])

\* C26: a poller's invocation that returns before its deadline of interval+1
\* seconds leaves its watchdog stopped; a stopped watchdog stays stopped, and
\* an overrun metric is pushed only by the callback of a watchdog that has
\* fired: none for that cycle, in that cycle or later.
C26_EarlyReturnDisarms ==
  [][/\ (rpc = "collect" /\ rpc' = "end" /\ conf.CollectorType # "listener" /\ now < timers[cycle].armedAt + conf.Interval + 1)
          => timers'[cycle].state = "stopped"
     /\ \A c \in 1..MaxCycles : timers[c].state = "stopped" => timers'[c] = timers[c]
     /\ Cardinality(Overruns') > Cardinality(Overruns)
          => \E c \in 1..MaxCycles : timers[c].state = "fired" /\ timers'[c].state = "pushed"]_vars

\* C26 witness: the first invocation returned before its deadline, the
\* deadline has passed since, a later cycle runs and no overrun metric was pushed.
C26_Witness ==
  /\ timers[1].state = "stopped"
  /\ now > timers[1].armedAt + conf.Interval + 1
  /\ cycle = 2
  /\ Overruns = {}

\* ------------------------------------------------------------------------
\* Properties of the dispatcher
\* ------------------------------------------------------------------------
\* the dispatcher is through with the record it consumed last
Through == dpc \in {"recv", "done"}
DeliveredTo == {d.h : d \in cur.delivered}
\* the key the claim gives the record consumed last
ExpectedKey == KeyOf(cur.in)

\* C8: the record consumed last, if its name as received has a match of a
\* blacklist entry, was delivered to no handler, added to no emission counter
\* and started no stats emission; otherwise it was counted, and once the
\* dispatcher is through with it, it was delivered to every handler that has
\* an endpoint for its key.
C8_DroppedIffBlacklisted ==
  cur.seen =>
    IF Blacklisted(cur.in.Name)
      THEN cur.delivered = {} /\ cur.counted = {} /\ ~cur.stats /\ Through
      ELSE /\ cur.counted # {}
           /\ Through => DeliveredTo = {h \in 1..NumHandlers : cur.key \in CollectorEndpoints[h]}

\* C8 witness: am1, whose name has a match of m[0-9]+$ that is not the whole
\* name, was dropped at a time when a stats emission was due, and metric3 was
\* forwarded before it.
C8_Witness ==
  /\ cur.seen /\ cur.in.Name = N_am1 /\ Blacklisted(cur.in.Name)
  /\ cur.delivered = {} /\ cur.counted = {}
  /\ conf.statChans > 0 /\ now > lastEmission + conf.Interval
  /\ \E h \in 1..NumHandlers : \E k \in CollectorEndpoints[h] : \E n \in DOMAIN hchan[h][k] :
       hchan[h][k][n].Name = conf.Prefix \o N_metric3

\* C9: every delivery of the record consumed last carries the collector's
\* prefix followed by the name as received (the name as received when the
\* prefix is empty), and the value, the type and the dimensions as received,
\* but for collectorCanonicalName.
C9_PrefixPrepended ==
  \A d \in cur.delivered :
    /\ d.m.Name = (IF conf.Prefix = <<>> THEN cur.in.Name ELSE conf.Prefix \o cur.in.Name)
    /\ d.m.Value = cur.in.Value
    /\ d.m.MetricType = cur.in.MetricType
    /\ \A k \in DOMAIN cur.in.Dimensions \ {K_canonical} :
         k \in DOMAIN d.m.Dimensions /\ d.m.Dimensions[k] = cur.in.Dimensions[k]
    /\ DOMAIN d.m.Dimensions \subseteq DOMAIN cur.in.Dimensions \cup {K_collector}

\* C9 witness: with prefix px. a counter named hello, with a dimension, was
\* delivered as px.hello to a handler.
C9_Witness ==
  /\ conf.Prefix = S_px
  /\ \E d \in cur.delivered :
       /\ cur.in.Name = N_hello /\ cur.in.Dimensions # EmptyMap
       /\ d.m.Name = S_px \o N_hello

\* C10: the record consumed last was counted under no other key than its
\* collectorCanonicalName dimension, or the collector's CanonicalName() when
\* it has none; each of its deliveries went to the endpoint of that key,
\* without collectorCanonicalName dimension, and with the collector dimension
\* it came with, or the collector's Name() when it came without.
C10_StampAndKey ==
  cur.seen =>
    /\ cur.counted \subseteq {ExpectedKey}
    /\ \A d \in cur.delivered :
         /\ d.k = ExpectedKey
         /\ K_canonical \notin DOMAIN d.m.Dimensions
         /\ K_collector \in DOMAIN d.m.Dimensions
         /\ d.m.Dimensions[K_collector] =
              (IF K_collector \in DOMAIN cur.in.Dimensions THEN cur.in.Dimensions[K_collector] ELSE conf.Name)

\* C10 witness: a record that came with collectorCanonicalName Foobar and
\* without collector dimension, from a collector whose canonical name is
\* Test, was counted under Foobar and delivered to the Foobar endpoint.
C10_Witness ==
  /\ conf.CanonicalName = S_Test
  /\ K_canonical \in DOMAIN cur.in.Dimensions /\ K_collector \notin DOMAIN cur.in.Dimensions
  /\ cur.counted = {S_Foobar}
  /\ \E d \in cur.delivered : d.k = S_Foobar /\ d.m.Dimensions = (K_collector :> S_Test)

\* C11: every pair sent on the stats channel carries, for its source, the
\* number of records resolved to that source that the dispatcher has consumed
\* so far and that no blacklist entry has a match in, the record in hand
\* included; and no pair sent before it for the same source carries a greater
\* count.
C11_StatsAreRunningTotals ==
  [][statSent' # statSent =>
       LET p == statSent'[Len(statSent')] IN
       /\ p.EmissionCount = MapGet(total', p.Name, 0)
       /\ \A i \in DOMAIN statSent : statSent[i].Name = p.Name => statSent[i].EmissionCount <= p.EmissionCount]_vars

\* C11 witness: a source no handler has an endpoint for was reported with
\* count 1 and, an interval later, with count 2.
C11_Witness ==
  /\ \A h \in 1..NumHandlers : S_Diamond \notin CollectorEndpoints[h]
  /\ \E i, j \in DOMAIN statSent :
       /\ i < j
       /\ statSent[i] = CollectorEmission(S_Diamond, 1)
       /\ statSent[j] = CollectorEmission(S_Diamond, 2)

\* the number of sends of the record consumed last to a handler
SendsTo(h) == Cardinality({i \in DOMAIN cur.sent : cur.sent[i] = h})

\* C12: the record consumed last, if no blacklist entry has a match in its
\* name, was sent at most once to each handler that has an endpoint for its
\* key, on that endpoint, exactly once when the dispatcher is through with
\* it, and never to a handler without such an endpoint; and a dispatcher
\* that cannot go on with its fan-out waits for a full endpoint channel of a
\* handler that has one.
C12_FanOutExactlyOnce ==
  (cur.seen /\ ~Blacklisted(cur.in.Name)) =>
    /\ \A h \in 1..NumHandlers :
         IF ExpectedKey \in CollectorEndpoints[h]
           THEN SendsTo(h) <= 1 /\ (Through => SendsTo(h) = 1)
           ELSE SendsTo(h) = 0
    /\ \A d \in cur.delivered : d.k = ExpectedKey /\ SendsTo(d.h) = 1
    /\ (dpc = "send" /\ ~ENABLED DispatchSend) =>
         \E h \in 1..NumHandlers :
           ExpectedKey \in CollectorEndpoints[h] /\ Len(hchan[h][ExpectedKey]) >= ChanCap

\* C12 witness: a record resolved to Foobar went once to the first handler,
\* which has an endpoint for Foobar, and the dispatcher went on past the
\* second handler, which has none.
C12_Witness ==
  /\ cur.seen /\ ExpectedKey = S_Foobar /\ ~Blacklisted(cur.in.Name)
  /\ S_Foobar \in CollectorEndpoints[1] /\ S_Foobar \notin CollectorEndpoints[2]
  /\ Through /\ cur.sent = <<1>>

\* C13: the stats channel is closed only by a dispatcher that has returned,
\* and a dispatcher has returned only when the collector's channel is closed
\* and empty, and then with its stats channel, if it was given one, closed;
\* a dispatcher that waits for a record on a closed and empty channel can
\* take that step.
C13_ClosesStatsWhenInputCloses ==
  /\ statClosed => dpc = "done"
  /\ dpc = "done" => cclosed /\ cchan = <<>> /\ (statClosed <=> conf.statChans > 0)
  /\ (dpc = "recv" /\ cclosed /\ cchan = <<>>) => ENABLED DispatchClose

\* C13 witness: the channel was closed after two records, the dispatcher
\* consumed them, closed its stats channel and returned.
C13_Witness ==
  /\ cclosed /\ produced = 2 /\ cur.seen
  /\ dpc = "done" /\ statClosed

\* C14 (the claim as stated): while the first handler never drains its
\* endpoint channels, every record the dispatcher consumes that no blacklist
\* entry has a match in is eventually sent to every other handler that has
\* an endpoint for its key.
C14_SlowHandlerStallsNobodyElse ==
  \A h \in (1..NumHandlers) \ {PrometheusHandler} :
    (cur.seen /\ ~Blacklisted(cur.in.Name) /\ ExpectedKey \in CollectorEndpoints[h]) ~> (SendsTo(h) >= 1)

\* the pairs the emission of the record consumed last has sent so far
EmissionPairs == SubSeq(statSent, cur.first, Len(statSent))
EmissionNames == {EmissionPairs[i].Name : i \in DOMAIN EmissionPairs}

\* C24: a stats emission starts only while a record is consumed that no
\* blacklist entry has a match in, and only later than one interval after the
\* dispatcher started or after the emission before it finished (so two
\* emissions are more than one interval apart); every pair is sent by an
\* emission, for a key counted until then that the emission has sent no pair
\* for, and an emission finishes having sent a pair for every such key.
C24_EmissionsAnIntervalApart ==
  [][/\ (dpc # "emit" /\ dpc' = "emit") =>
          /\ cur'.seen /\ ~Blacklisted(cur'.in.Name) /\ cchan' # cchan
          /\ now > emissionEnd + conf.Interval
     /\ statSent' # statSent =>
          /\ dpc = "emit" /\ cur.stats
          /\ statSent'[Len(statSent')].Name \in (DOMAIN total) \ EmissionNames
     /\ (dpc = "emit" /\ dpc' # "emit") => EmissionNames' = DOMAIN total]_vars

\* C24 witness: an emission that is not the dispatcher's first has finished
\* and has sent a pair for each of two keys.
C24_Witness ==
  /\ cur.stats /\ dpc # "emit"
  /\ cur.first > 1 /\ emissionEnd > conf.Interval
  /\ Len(EmissionPairs) = 2
  /\ Cardinality(DOMAIN total) = 2

\* ------------------------------------------------------------------------
\* Properties of the pipeline
\* ------------------------------------------------------------------------
ReservedNames == {BeginName, EndName, SentinelName, OverrunName}
\* a record as the dispatcher delivers a reserved record
IsReserved(m) == \E r \in ReservedNames : m.Name = conf.Prefix \o r
StartsWith(t, p) == Len(t) >= Len(p) /\ SubSeq(t, 1, Len(p)) = p
\* a sample line whose key is the sanitized name of a reserved record
FromReserved(line) == \E r \in ReservedNames : StartsWith(line.key, lowerFirst(nameEscaper(conf.Prefix \o r)))

\* C6 (the claim as stated): no working list holds a begin marker, an end
\* marker, a sentinel or the overrun metric as the dispatcher delivers it,
\* and no sample line of a published body is derived from one.
C6_ReservedNeverOrdinary ==
  /\ \A s \in DOMAIN metricCollectorTable :
       \A n \in DOMAIN metricCollectorTable[s] : ~IsReserved(metricCollectorTable[s][n])
  /\ \A s \in DOMAIN metricOutputTable :
       \A n \in DOMAIN metricOutputTable[s] : ~FromReserved(metricOutputTable[s][n])

\* the values of a list of records, or of the lines of a body, rise
Rising(vals) == \A i, j \in DOMAIN vals : i < j => vals[i] < vals[j]
ValuesOf(metrics) == [i \in DOMAIN metrics |-> metrics[i].Value]
LineValues(body) == [i \in DOMAIN body |-> body[i].value]

\* C27: with one dispatcher feeding one handler context, the records of a
\* source stand in its working list, in every list handed to writeTable and
\* in its published body in the order in which the collector pushed them on
\* its channel (the value of a record is the number of its push), and each of
\* them at most once.
C27_PushOrderKept ==
  /\ \A s \in DOMAIN metricCollectorTable : Rising(ValuesOf(metricCollectorTable[s]))
  /\ \A w \in writers : Rising(ValuesOf(w.metrics)) /\ Rising(LineValues(w.out))
  /\ \A s \in DOMAIN metricOutputTable : Rising(LineValues(metricOutputTable[s]))
  /\ \A s \in DOMAIN closed : \A i \in DOMAIN closed[s] :
       \A j \in DOMAIN closed[s][i] : \E k \in 1..produced : closed[s][i][j].Value = k

\* C27 witness: a body of three lines is published while the working list
\* holds a later record.
C27_Witness ==
  \E s \in DOMAIN metricOutputTable :
    /\ Len(metricOutputTable[s]) = 3
    /\ Len(MapGet(metricCollectorTable, s, <<>>)) = 1

\* ------------------------------------------------------------------------
\* Properties of the snapshot cache
\* ------------------------------------------------------------------------
\* the bodies writeTable can build from the generations of s closed so far
ClosedGens(s) == MapGet(closed, s, <<>>)
BodiesOf(metrics) == UNION {SerializeSet(metrics, t) : t \in 0..now}
ClosedBodies(s) == UNION {BodiesOf(ClosedGens(s)[i]) : i \in DOMAIN ClosedGens(s)}
Publishing(s) == {w \in writers : w.name = s}

\* C1: whatever a reader copies out at any instant holds, as the body of each
\* source, the complete serialization of one generation of that source closed
\* before (the records the cache received for it between two consecutive end
\* markers), never records of two generations and never part of one.
C1_ReaderSeesOneClosedGeneration ==
  \A p \in PrometheustableRead : \A i \in DOMAIN p.chunks :
    p.chunks[i].out \in ClosedBodies(p.chunks[i].name)

\* C1 witness: the second, different generation of a source is what a reader
\* sees while a third generation of that source is already being filled.
C1_Witness ==
  \E s \in DOMAIN metricOutputTable :
    /\ Len(ClosedGens(s)) = 2
    /\ ClosedGens(s)[1] # <<>> /\ ClosedGens(s)[2] # <<>> /\ ClosedGens(s)[1] # ClosedGens(s)[2]
    /\ MapGet(generation, s, <<>>) # <<>>
    /\ \A p \in PrometheustableRead : \E i \in DOMAIN p.chunks :
         p.chunks[i].name = s /\ p.chunks[i].out \in BodiesOf(ClosedGens(s)[2])

\* C2 (the claim as stated): once two or more end markers of a source have been
\* processed and every writeTable started for it has finished, the published
\* payload of the source is the serialization of its most recently closed
\* generation.
C2_LastClosedGenerationPublished ==
  \A s \in DOMAIN closed :
    (Len(closed[s]) >= 2 /\ Publishing(s) = {}) =>
      /\ s \in DOMAIN metricOutputTable
      /\ metricOutputTable[s] \in BodiesOf(closed[s][Len(closed[s])])

\* C4: an end marker processed while the working list of its source is empty
\* starts a writeTable with an empty list, and a writeTable started with an
\* empty list sets the published payload of its source to the empty payload.
C4_EmptyGenerationPublishesEmpty ==
  [][/\ \A s \in CacheSources :
          (spawned' = spawned + 1 /\ Len(MapGet(closed', s, <<>>)) > Len(MapGet(closed, s, <<>>))
             /\ MapGet(metricCollectorTable, s, <<>>) = <<>>)
          => \E w \in writers' \ writers : w.name = s /\ w.metrics = <<>>
     /\ \A w \in writers :
          (w.metrics = <<>> /\ w.pc = "publish" /\ w \notin writers')
          => (w.name \in DOMAIN metricOutputTable' /\ metricOutputTable'[w.name] = <<>>)]_vars

\* C4 witness: a non-empty generation was published, then an empty one was
\* closed and published, and the source's payload is now empty.
C4_Witness ==
  \E s \in DOMAIN metricOutputTable :
    /\ Len(ClosedGens(s)) = 2
    /\ ClosedGens(s)[1] # <<>> /\ ClosedGens(s)[2] = <<>>
    /\ Publishing(s) = {}
    /\ metricOutputTable[s] = <<>>

\* C5 (the claim as stated): a step that appends a data record to a working
\* list leaves every payload a reader can obtain unchanged.
C5_AppendInvisibleToReaders ==
  [][(\E s \in CacheSources :
        Len(MapGet(metricCollectorTable', s, <<>>)) > Len(MapGet(metricCollectorTable, s, <<>>)))
     => PrometheustableRead' = PrometheustableRead]_vars

\* C21: the batch published when an end marker of a source is processed is
\* exactly the data records of the source received after the matching begin
\* marker and before the end marker, in arrival order; a record received
\* while no generation of the source is open is in no published batch.
C21_BatchIsTheOpenGeneration ==
  [][\A s \in CacheSources :
       Len(MapGet(closed', s, <<>>)) > Len(MapGet(closed, s, <<>>))
       => \E w \in writers' \ writers : w.name = s /\ w.metrics = MapGet(openGen, s, <<>>)]_vars

\* C23: every read and every write of the type table happens inside one and
\* the same mutual-exclusion region: addPrometheusMetric is never at its
\* write of metricOutputTypes while PrometheustableRead ranges over it.
C23_TypeTableUnderOneLock ==
  ~ (apc = "locked" /\ ~IsSentinel(am) /\ readpc = "types")

\* C28: PrometheustableRead releases the published-table lock before it
\* writes to the client: a reader that stands in the write holds no lock, a
\* record can be taken in for appending whenever no other call is under way,
\* and a writeTable that is ready to publish can publish.
C28_BlockedReaderHoldsNoLock ==
  readpc = "write" =>
    /\ metricOutputTableMutex # "reader" /\ metricCollectorTableMutex # "reader"
    /\ (apc = "idle" /\ emits < MaxEmits) => ENABLED AddLock
    /\ apc = "locked" => ENABLED AddApply
    /\ (\E w \in writers : w.pc = "publish") => ENABLED LockedPublish

\* C28 witness: a reader stands in its write to the client while a
\* writeTable is ready to publish a closed generation and the handler is free
\* to take the next record in.
C28_Witness ==
  /\ readpc = "write"
  /\ \E w \in writers : w.pc = "publish" /\ w.metrics # <<>>
  /\ apc = "idle" /\ emits < MaxEmits

\* ------------------------------------------------------------------------
\* Properties of the textfile handler
\* ------------------------------------------------------------------------
\* C15 (the claim as stated): a handler whose writer is unset has not
\* crashed and has written nothing.
C15_UnsetWriterDiscards ==
  (tpc # "new" /\ fh = "nil") => (tpc # "crashed" /\ fbuf = <<>> /\ file = <<>>)

\* C16 (the claim as stated): when a flush of a batch that is not empty is
\* over, the file holds one line per record of that batch, in batch order,
\* and nothing else.
C16_FileHoldsLastFlushOnly ==
  (tpc = "idle" /\ fh = "open" /\ tbatch # <<>>) =>
    /\ Len(file) = Len(tbatch)
    /\ \A i \in DOMAIN file : file[i].name = tbatch[i].Name /\ file[i].value = tbatch[i].Value

\* ------------------------------------------------------------------------
\* Properties of the serializer's functions
\* ------------------------------------------------------------------------
\* C17: a name sanitized twice is the name sanitized once.
C17_SanitizeIdempotent ==
  sapplied = 2 => sname = sfirst

\* C17 witness: A.$ became a_ at the first application, and a_ again at the
\* second.
C17_Witness ==
  /\ sinput = <<"A", ".", "$">>
  /\ sapplied = 2
  /\ sfirst = <<"a", "_">> /\ sname = <<"a", "_">>

\* a name that matches [a-zA-Z_:][a-zA-Z0-9_:]* as a whole
ValidName(n) == n # <<>> /\ n[1] \in NameFirst /\ \A i \in 2..Len(n) : n[i] \in NameRest
SanitizedName(m) == lowerFirst(nameEscaper(m.Name))
RECURSIVE KeepValid(_)
\* the records of a list whose sanitized name is a name
KeepValid(g) ==
  IF g = <<>> THEN <<>>
  ELSE (IF ValidName(SanitizedName(Head(g))) THEN <<Head(g)>> ELSE <<>>) \o KeepValid(Tail(g))
\* the key of a sample line up to its dimensions
NamePart(key) ==
  SubSeq(key, 1, (CHOOSE i \in 1..Len(key) : key[i] = "{" /\ \A j \in 1..(i - 1) : key[j] # "{") - 1)

\* C18 (the claim as stated): every published body is, line by line, the
\* records of one closed generation of its source whose sanitized name is a
\* name as a whole, each with its sanitized name and its value.
C18_OnlyWholeNamesPublished ==
  \A s \in DOMAIN metricOutputTable :
    \E i \in DOMAIN ClosedGens(s) :
      LET v == KeepValid(ClosedGens(s)[i])
          body == metricOutputTable[s]
      IN /\ Len(body) = Len(v)
         /\ \A j \in DOMAIN body : NamePart(body[j].key) = SanitizedName(v[j]) /\ body[j].value = v[j].Value

\* ------------------------------------------------------------------------
\* Properties of the pod selection
\* ------------------------------------------------------------------------
\* the pod carries the label with the value
Carries(pod, k, v) == <<k, v>> \in {<<j, pod.labels[j]>> : j \in DOMAIN pod.labels}
\* what the selector asks of a pod
Holds(s, pod) ==
  IF s.kind = "label" THEN \A k \in DOMAIN s.Labels : Carries(pod, k, s.Labels[k])
  ELSE \A i \in DOMAIN pod.ready : pod.ready[i] = TRUE
\* the positions of the input whose pod passes every selector of the parser
\* and of the call
Kept ==
  {i \in DOMAIN pods : \A s \in Range(parser.selectors) \cup Range(selectors) : Holds(s, pods[i])}
\* the j-th position of a set of positions, in increasing order
Nth(S, j) == CHOOSE i \in S : Cardinality({k \in S : k < i}) = j - 1

\* C20: SelectPodsFrom returns, in input order, exactly the pods of the input
\* for which every selector of the parser and every selector of the call is
\* true (a label selector: the pod carries every listed label with the listed
\* value; the ready selector: every container status is ready); no pod that
\* fails a selector is returned and nothing else is added.
C20_SelectsExactlyThePassingPods ==
  ppc = "returned" =>
    /\ Len(ret) = Cardinality(Kept)
    /\ \A j \in 1..Len(ret) : ret[j] = pods[Nth(Kept, j)]

\* C20 witness: a call with selectors on both sides has returned some pods
\* of a list and left others out.
C20_Witness ==
  /\ ppc = "returned"
  /\ parser.selectors # <<>> /\ selectors # <<>>
  /\ Kept # {} /\ Kept # DOMAIN pods
  /\ Len(ret) = 1

RECURSIVE KeyName(_)
\* the metric name of a sample line: its key up to the opening brace
KeyName(key) == IF key = <<>> \/ Head(key) = "{" THEN <<>> ELSE <<Head(key)>> \o KeyName(Tail(key))
\* the names of the sample lines of the published bodies
PublishedNames ==
  UNION {{KeyName(metricOutputTable[s][i].key) : i \in DOMAIN metricOutputTable[s]} : s \in DOMAIN metricOutputTable}
TypeNames(p) == {p.types[i].name : i \in DOMAIN p.types}

\* C29 (the claim as stated): every payload PrometheustableRead can return
\* has exactly one TYPE line for each distinct sanitized name of the records
\* in the published bodies and none for any other name, so that two raw names
\* that sanitize to the same name yield a single TYPE line.
C29_OneTypeLinePerPublishedName ==
  \A p \in PrometheustableRead :
    /\ TypeNames(p) = PublishedNames
    /\ \A i, j \in DOMAIN p.types : p.types[i].name = p.types[j].name => i = j

\* C30 (the claim as stated): with one dispatcher per collector and the same
\* stats channel handed to all of them, no dispatcher closes the stats
\* channel after another dispatcher has closed it and none sends on it once
\* it is closed, whatever the order in which the collectors' channels close.
C30_SharedStatsChannelClosedOnce ==
  panicked \notin {"close of closed channel", "send on closed channel"}

\* C31 (the claim as stated): the overrun metric the watchdog of a cycle
\* pushes goes on the collector's channel before the end marker of that
\* cycle, however the timer callback and the return of Collect() interleave:
\* when the callback of cycle c pushes, fewer than c end markers have been
\* pushed.
C31_OverrunBeforeItsEndMarker ==
  [][\A c \in 1..MaxCycles :
       (timers[c].state = "fired" /\ timers'[c].state = "pushed") => EndsReceivedOrQueued < c]_vars

\* the end marker of the collector as the dispatcher forwards it
ForwardedEnd(m) == m.Name = conf.Prefix \o EndName

\* C32 (the claim as stated): also for a collector with a name prefix, the
\* end marker of every cycle reaches the snapshot cache recognisable as an end
\* marker and closes a generation: the step on which the Prometheus handler
\* hands it to addPrometheusMetric starts a writeTable for the collector.
C32_PrefixedMarkersCloseGenerations ==
  [][\A k \in CollectorEndpoints[PrometheusHandler] :
       (/\ hchan[PrometheusHandler][k] # <<>>
        /\ hchan'[PrometheusHandler][k] = Tail(hchan[PrometheusHandler][k])
        /\ ForwardedEnd(Head(hchan[PrometheusHandler][k])))
         => /\ IsEndCollection(Head(hchan[PrometheusHandler][k]))
            /\ spawned' = spawned + 1]_vars

\* C33 (the claim as stated): every data record in the working table is
\* stored under the key of the markers of its collector, so that an end
\* marker hands it to a publication: no other key of the working table
\* holds records, whether the record came with a collector dimension of its
\* own or with a collectorCanonicalName.
C33_StoredUnderTheMarkersKey ==
  \A s \in DOMAIN metricCollectorTable :
    metricCollectorTable[s] # <<>> => s = GetDimensionValue(EndCollection(conf.Name), K_collector)

\* the execution contexts that take locks: the handler's call of
\* addPrometheusMetric and the reader; a writeTable takes and releases the
\* published-table lock within its one step
LockHolders == {"handler", "reader"}

\* C34: no context holds the working-table lock and the published-table
\* lock at the same time; addPrometheusMetric, whatever the record, and
\* PrometheustableRead have released their lock when they return, and a
\* writeTable leaves the published-table lock free; so, while the process
\* runs, whoever holds a lock can take its next step without a further lock,
\* and a writeTable that waits can publish as soon as the lock is free.
C34_LocksNeverNested ==
  /\ \A x \in LockHolders : ~(metricCollectorTableMutex = x /\ metricOutputTableMutex = x)
  /\ metricCollectorTableMutex \in {"free", "handler"} /\ metricOutputTableMutex \in {"free", "reader"}
  /\ apc = "idle" => metricCollectorTableMutex = "free"
  /\ readpc \in {"idle", "write"} => metricOutputTableMutex = "free"
  /\ apc = "locked" => (metricCollectorTableMutex = "handler" /\ ENABLED AddApply)
  /\ readpc = "types" => (metricOutputTableMutex = "reader" /\ ENABLED ReadTypes)
  /\ readpc = "chunks" => (metricOutputTableMutex = "reader" /\ ENABLED ReadUnlock)
  /\ (readpc # "crashed" /\ metricOutputTableMutex = "free" /\ \E w \in writers : w.pc = "publish")
       => ENABLED LockedPublish

\* C34 witness: the handler holds the working-table lock for an end marker
\* while a reader holds the published-table lock and a writeTable waits to
\* publish, after a begin marker and a data record went through.
C34_Witness ==
  /\ apc = "locked" /\ IsEndCollection(am) /\ metricCollectorTableMutex = "handler"
  /\ readpc = "chunks" /\ metricOutputTableMutex = "reader"
  /\ \E w \in writers : w.pc = "publish" /\ w.metrics # <<>>
  /\ emits >= 3

\* C35 (the claim as stated): when a dispatcher with a stats channel has
\* returned, a pair was sent on the stats channel, for every source it
\* counted, whose count is the number of records forwarded for that source.
C35_FinalCountsReachTheConsumer ==
  (dpc = "done" /\ conf.statChans > 0) =>
    \A k \in DOMAIN total : \E i \in DOMAIN statSent : statSent[i] = CollectorEmission(k, total[k])

====
